---- MODULE Spec2Model ----
(***************************************************************************)
(* Interaction capture and code synthesis of AutoVNC (frontend).           *)
(*                                                                         *)
(* The specifications of this module:                                      *)
(*   Spec        the recorder from the constructed App: VNCViewer's        *)
(*               classifier, the App's handleVNCInteraction and the        *)
(*               asynchronous template calls                               *)
(*   SpecSession the recorder from a recording session in progress         *)
(*   SpecLive    SpecSession where every storage call made settles         *)
(*   SpecMerge   mergeGeneratedAndManual applied to bounded texts          *)
(*   SpecInsert  CodeEditor.insertCode applied to bounded buffers          *)
(*   SpecGen     generateCode called at different times                    *)
(*   SpecDrag    one press, moves around the drag threshold and a release  *)
(*   SpecClicks  presses and releases at two points while recording        *)
(*   SpecTiming  key and wheel input with idle time in between             *)
(*   SpecKeys    keydown events of plain, special and modifier keys        *)
(*   SpecVerify  the assertion-capture modes: region selection and the     *)
(*               text confirmation dialog                                  *)
(*   SpecCapture presses in the middle and at two corners of the surface   *)
(*   SpecTabs    the script tabs: open, edit, save, close                  *)
(*   SpecConnect connecting, disconnecting, starting and stopping the      *)
(*               recording, from the constructed App                       *)
(*   SpecSteps   the step list under additions, copies, deletions, moves   *)
(*   SpecCall    one call of a pure function of utils/ (validateStep,      *)
(*               scaleCoordinates, stepToCode, detectCodeConflicts,        *)
(*               validatePythonSyntax) on an argument of a bounded set     *)
(* Texts are TLA+ strings; "\n" is the line separator as in the source.    *)
(***************************************************************************)
EXTENDS Integers, Sequences, FiniteSets, TLC

VARIABLES
    mNew,       \* mergeGeneratedAndManual: newGenerated
    mOld,       \* mergeGeneratedAndManual: oldGenerated
    mFull,      \* mergeGeneratedAndManual: fullCode
    mOut,       \* its result {merged, hasConflict}
    mDone,      \* TRUE once mergeGeneratedAndManual has returned
    genClock,   \* Date.now() in ms as generateCode reads it
    genLog,     \* the generateCodeWithMetadata calls made: input and result
    edCode,     \* CodeEditor: the text of the Monaco model
    edPrev,     \* the text of the model before the last insertCode
    edText,     \* the text argument of the last insertCode
    edCount,    \* number of insertCode calls made
    now,            \* Date.now() in ms
    connected,      \* App: connected (VNCViewer is mounted iff TRUE)
    isRecording,    \* App: isRecording
    isPaused,       \* App: isPaused
    currentScript,  \* App: name of currentScript, NONE when null
    codeByScript,   \* App: code of each open script (code, codeByScriptRef)
    lastRecordTime, \* App: lastRecordTimeRef.current
    isSmartRecord,  \* VNCViewer: isSmartRecord
    upSmart,        \* isSmartRecord as the memoized handleMouseUpCapture sees it
    lastActionTime, \* VNCViewer: lastActionTimeRef.current
    dragData,       \* VNCViewer: dragDataRef.current
    clickTimeoutRef,\* VNCViewer: clickTimeoutRef.current (0 when null)
    timers,         \* the pending setTimeout(commitAction, 250) callbacks
    inflight,       \* the createSmartTemplate calls not yet settled
    evCount,        \* number of input events delivered so far
    ctlCount,       \* number of toolbar and explorer commands given so far
    lastDown,       \* the browser's click counter: the last mousedown
    classified,     \* history: the pointer interactions classified, in order
    committed,      \* history: the stepData passed to onInteraction, in order
    insLog,         \* history: the insertCode calls made by the App, in order
    inflightAtStop, \* history: the captures in flight when recording stopped
    settled,        \* history: the storage calls settled, with their outcome
    isVerifyMode,     \* VNCViewer: isVerifyMode (image assertion capture)
    isVerifyTextMode, \* VNCViewer: isVerifyTextMode (text assertion capture)
    isSelecting,      \* VNCViewer: isSelecting
    selectionStart,   \* VNCViewer: selectionStart {x, y}, NOPOINT when null
    selectionRect,    \* VNCViewer: selectionRect, NORECT when null
    ocrModal,         \* VNCViewer: ocrModal {isOpen, detectedText, ...}
    dirtyScripts,   \* App: dirtyScripts, the scripts with unsaved changes
    openScripts,    \* App: openScripts, the tabs in their order
    closeConfirm,   \* App: closeConfirm {isOpen, scriptName}
    storedCode,     \* storage: the code of each script, as scriptsApi keeps it
    stepList,   \* the step list of a script (steps)
    idCount,    \* number of step ids handed out by uuidv4()
    callArg,    \* the argument of the call of a function under check
    callRes,    \* its result; meaningful once callDone
    callDone    \* TRUE once the function has returned

mergeVars == <<mNew, mOld, mFull, mOut, mDone>>
genVars == <<genClock, genLog>>
edVars == <<edCode, edPrev, edText, edCount>>
stepVars == <<stepList, idCount>>
callVars == <<callArg, callRes, callDone>>
codeVars == <<codeByScript, dirtyScripts>>
tabVars == <<openScripts, closeConfirm, storedCode>>
selVars == <<isVerifyMode, isVerifyTextMode, isSelecting, selectionStart,
             selectionRect, ocrModal>>
recVars == <<now, connected, isRecording, isPaused, currentScript,
             codeVars, lastRecordTime, isSmartRecord, upSmart,
             lastActionTime, dragData, clickTimeoutRef, timers, inflight,
             evCount, ctlCount, lastDown, classified, committed, insLog,
             inflightAtStop, settled, selVars, tabVars>>
vars == <<mNew, mOld, mFull, mOut, mDone, genClock, genLog,
          edCode, edPrev, edText, edCount,
          now, connected, isRecording, isPaused, currentScript,
          codeByScript, lastRecordTime, isSmartRecord, upSmart,
          lastActionTime, dragData, clickTimeoutRef, timers, inflight,
          evCount, ctlCount, lastDown, classified, committed, insLog,
          inflightAtStop, settled,
          isVerifyMode, isVerifyTextMode, isSelecting, selectionStart,
          selectionRect, ocrModal,
          dirtyScripts, openScripts, closeConfirm, storedCode,
          stepList, idCount, callArg, callRes, callDone>>

NONE == "none"

(***************************************************************************)
(* The part of the state a specification does not use stays as constructed *)
(***************************************************************************)
IdleMerge ==
    /\ mNew = "" /\ mOld = "" /\ mFull = ""
    /\ mOut = [merged |-> "", hasConflict |-> FALSE]
    /\ mDone = FALSE

IdleGen == genClock = 0 /\ genLog = <<>>

IdleInsert == edCode = "" /\ edPrev = "" /\ edText = "" /\ edCount = 0

IdleSteps == stepList = <<>> /\ idCount = 0

IdleCall == callArg = "" /\ callRes = "" /\ callDone = FALSE

Scripts == {"s1", "s2"}     \* names of the scripts in storage
Epoch == 1000               \* Date.now() when the page is loaded
NOTIME == -1                \* a time reference holding null
NODRAG == [active |-> FALSE]    \* dragDataRef.current = null
NODOWN == [count |-> 0]         \* no mousedown seen yet
UNSET == "<undefined>"      \* codeByScriptRef.current[name] is undefined
\* closeConfirm = {isOpen: false, scriptName: null}
NOCONFIRM == [isOpen |-> FALSE, scriptName |-> NONE]
\* the code of a stored script before anything is saved in the session
StoredCode == "def run(vnc):\n    pass\n"
NOPOINT == [x |-> -1, y |-> -1]     \* selectionStart = null
\* selectionRect = null, ocrModal.region = null, a stepData without region
NORECT == [x |-> -1, y |-> -1, width |-> -1, height |-> -1]

\* VNCViewer as mounted: the useState initial values of the assertion modes
VerifyOff ==
    /\ isVerifyMode = FALSE
    /\ isVerifyTextMode = FALSE
    /\ isSelecting = FALSE
    /\ selectionStart = NOPOINT
    /\ selectionRect = NORECT
    /\ ocrModal = [isOpen |-> FALSE, detectedText |-> "", isLoading |-> FALSE,
                   region |-> NORECT]

\* The recorder as constructed: App's useState/useRef initial values
InitRecorder ==
    /\ now = Epoch
    /\ connected = FALSE
    /\ isRecording = FALSE
    /\ isPaused = FALSE
    /\ currentScript = NONE
    /\ codeByScript = [s \in Scripts |-> UNSET]
    /\ dirtyScripts = {}
    /\ openScripts = <<>>
    /\ closeConfirm = NOCONFIRM
    /\ storedCode = [s \in Scripts |-> StoredCode]
    /\ lastRecordTime = NOTIME
    /\ isSmartRecord = TRUE
    /\ upSmart = TRUE
    /\ lastActionTime = NOTIME
    /\ dragData = NODRAG
    /\ clickTimeoutRef = 0
    /\ timers = {}
    /\ inflight = {}
    /\ evCount = 0
    /\ ctlCount = 0
    /\ lastDown = NODOWN
    /\ classified = <<>>
    /\ committed = <<>>
    /\ insLog = <<>>
    /\ inflightAtStop = {}
    /\ settled = <<>>
    /\ VerifyOff

(***************************************************************************)
(* String helpers (JavaScript String methods)                              *)
(***************************************************************************)
CharAt(s, i) == SubSeq(s, i, i)

\* String.prototype.startsWith
StartsWith(s, p) == Len(p) <= Len(s) /\ SubSeq(s, 1, Len(p)) = p

\* String.prototype.slice(n), n >= 0
Slice(s, n) == SubSeq(s, n + 1, Len(s))

\* String.prototype.split('\n'): the pieces between the "\n" of s, in order
SplitLines(s) ==
    LET NL == {i \in 1..Len(s) : CharAt(s, i) = "\n"}
        n == Cardinality(NL)
        Pos(k) == IF k = 0 THEN 0
                  ELSE IF k = n + 1 THEN Len(s) + 1
                  ELSE CHOOSE p \in NL : Cardinality({q \in NL : q <= p}) = k
    IN  [k \in 1..(n + 1) |-> SubSeq(s, Pos(k - 1) + 1, Pos(k) - 1)]

\* ls[lo] + "\n" + ... + ls[hi], lo <= hi
RECURSIVE JoinRange(_, _, _)
JoinRange(ls, lo, hi) ==
    IF lo = hi THEN ls[lo]
    ELSE LET mid == (lo + hi) \div 2
         IN  JoinRange(ls, lo, mid) \o "\n" \o JoinRange(ls, mid + 1, hi)

\* Array.prototype.join('\n')
JoinLines(ls) == IF Len(ls) = 0 THEN "" ELSE JoinRange(ls, 1, Len(ls))

IsSpace(c) == c \in {" ", "\n", "\t"}

RECURSIVE TrimStart(_)
TrimStart(s) ==
    IF Len(s) > 0 /\ IsSpace(CharAt(s, 1)) THEN TrimStart(Slice(s, 1)) ELSE s

RECURSIVE TrimEnd(_)
TrimEnd(s) ==
    IF Len(s) > 0 /\ IsSpace(CharAt(s, Len(s)))
    THEN TrimEnd(SubSeq(s, 1, Len(s) - 1)) ELSE s

\* String.prototype.trim
Trim(s) == TrimEnd(TrimStart(s))

\* all strings over alphabet A of length exactly n / at most n
RECURSIVE StrsOfLen(_, _)
StrsOfLen(A, n) ==
    IF n = 0 THEN {""}
    ELSE {s \o c : s \in StrsOfLen(A, n - 1), c \in A}

RECURSIVE StrsUpTo(_, _)
StrsUpTo(A, n) ==
    IF n = 0 THEN {""}
    ELSE {""} \cup {s \o c : s \in StrsUpTo(A, n - 1), c \in A}

(***************************************************************************)
(* utils/codeUtils.js                                                      *)
(***************************************************************************)
\* number of leading lines of fullCode that match generatedCode after trim
RECURSIVE matchIndex(_, _, _)
matchIndex(generatedLines, fullLines, i) ==
    IF i <= Len(generatedLines) /\ i <= Len(fullLines)
       /\ Trim(generatedLines[i]) = Trim(fullLines[i])
    THEN matchIndex(generatedLines, fullLines, i + 1)
    ELSE i - 1

extractManualCodeFallback(generatedCode, fullCode) ==
    IF generatedCode = "" \/ fullCode = "" THEN ""
    ELSE LET generatedLines == SplitLines(generatedCode)
             fullLines == SplitLines(fullCode)
             k == matchIndex(generatedLines, fullLines, 1)
             manualLines == SubSeq(fullLines, k + 1, Len(fullLines))
         IN  Trim(JoinLines(manualLines))

\* mutant: the untouched path re-adds the separator the manual slice already has
mergeGeneratedAndManual_sep(newGenerated, oldGenerated, fullCode) ==
    IF StartsWith(fullCode, oldGenerated)
    THEN [merged |-> newGenerated \o "\n"
                       \o Slice(fullCode, Len(oldGenerated)),
          hasConflict |-> FALSE]
    ELSE [merged |-> newGenerated \o "\n"
                       \o extractManualCodeFallback(oldGenerated, fullCode),
          hasConflict |-> TRUE]

mergeGeneratedAndManual(newGenerated, oldGenerated, fullCode) ==
    IF StartsWith(fullCode, oldGenerated)
    THEN [merged |-> newGenerated \o Slice(fullCode, Len(oldGenerated)),
          hasConflict |-> FALSE]
    ELSE [merged |-> newGenerated \o "\n"
                       \o extractManualCodeFallback(oldGenerated, fullCode),
          hasConflict |-> TRUE]

(***************************************************************************)
(* utils/codeGenerator.js                                                  *)
(***************************************************************************)
UNDEF == -1                 \* an undefined numeric field, or a null one
                            \* where the code treats both alike
NOREGION == [x |-> UNDEF, y |-> UNDEF, width |-> UNDEF, height |-> UNDEF]

\* template-literal rendering of a number kept in tenths (0.3, 1.5, 2)
FormatTenths(d) ==
    IF d % 10 = 0 THEN ToString(d \div 10)
    ELSE ToString(d \div 10) \o "." \o ToString(d % 10)

LowerCase == "abcdefghijklmnopqrstuvwxyz"
UpperCase == "ABCDEFGHIJKLMNOPQRSTUVWXYZ"

\* position of character c in string s from position i on, 0 when absent
RECURSIVE IndexOfChar(_, _, _)
IndexOfChar(s, c, i) ==
    IF i > Len(s) THEN 0
    ELSE IF CharAt(s, i) = c THEN i
    ELSE IndexOfChar(s, c, i + 1)

\* String.prototype.toUpperCase
RECURSIVE ToUpperCase(_)
ToUpperCase(s) ==
    IF s = "" THEN ""
    ELSE LET c == CharAt(s, 1)
             k == IndexOfChar(LowerCase, c, 1)
         IN  (IF k = 0 THEN c ELSE CharAt(UpperCase, k))
                 \o ToUpperCase(Slice(s, 1))

\* text.replace(/"/g, '\\"')
RECURSIVE EscapeQuotes(_)
EscapeQuotes(s) ==
    IF s = "" THEN ""
    ELSE LET c == CharAt(s, 1)
         IN  (IF c = "\"" THEN "\\\"" ELSE c) \o EscapeQuotes(Slice(s, 1))

\* keys.map(k => `Keys.${k.toUpperCase()}`).join(', ')
RECURSIVE KeysList(_)
KeysList(keys) ==
    IF Len(keys) = 0 THEN ""
    ELSE IF Len(keys) = 1 THEN "Keys." \o ToUpperCase(keys[1])
    ELSE "Keys." \o ToUpperCase(keys[1]) \o ", " \o KeysList(Tail(keys))

\* JavaScript values: undefined, null, NaN and a number
JSUndefined == [kind |-> "undefined"]
JSNull == [kind |-> "null"]
JSNaN == [kind |-> "NaN"]
JSNumber(n) == [kind |-> "number", v |-> n]

\* a coordinate holding null, and one holding NaN (UNDEF: undefined)
NULLNUM == -2
NANNUM == -3

\* step.x !== undefined && step.y !== undefined && !isNaN(step.x)
\*     && !isNaN(step.y); isNaN(null) is false
HasCoords(step) ==
    /\ step.x # UNDEF /\ step.y # UNDEF
    /\ step.x # NANNUM /\ step.y # NANNUM

\* Math.round(a + b / 2) for integers a, b >= 0 (halves round up)
RoundHalf(a, b) == a + ((b + 1) \div 2)

\* the text of Math.round(v) for a coordinate that passed HasCoords
RoundText(v) == ToString(IF v = NULLNUM THEN 0 ELSE v)

\* the text of a coordinate in a template literal
NumText(v) ==
    IF v = UNDEF THEN "undefined"
    ELSE IF v = NULLNUM THEN "null"
    ELSE IF v = NANNUM THEN "NaN" ELSE ToString(v)

TemplateOrCoords(fn, step) ==
    IF step.template # ""
    THEN LET hintArg == IF HasCoords(step)
                        THEN ", hint=(" \o RoundText(step.x) \o ", "
                                 \o RoundText(step.y) \o ")"
                        ELSE ""
         IN  "vnc." \o fn \o "(\"" \o step.template \o "\", timeout=30.0"
                 \o hintArg \o ")"
    ELSE "vnc." \o fn \o "(" \o NumText(step.x) \o ", " \o NumText(step.y)
             \o ")"

RegionArg(region) ==
    ", region=(" \o ToString(region.x) \o ", " \o ToString(region.y) \o ", "
        \o ToString(region.width) \o ", " \o ToString(region.height) \o ")"

\* the statement of one step, "" where the source returns null
stepToCode(step) ==
    CASE step.type \in {"click", "double_click", "right_click"} ->
            TemplateOrCoords(step.type, step)
      [] step.type = "type" ->
            "vnc.type(\"" \o EscapeQuotes(step.text) \o "\""
                \o (IF Len(step.keys) > 0
                    THEN ", [" \o KeysList(step.keys) \o "]" ELSE "")
                \o ")"
      [] step.type = "key_press" ->
            IF Len(step.keys) > 0
            THEN "vnc.press(" \o KeysList(step.keys) \o ")" ELSE ""
      [] step.type = "key_combo" ->
            IF Len(step.keys) > 0
            THEN "vnc.key_combo(" \o KeysList(step.keys) \o ")" ELSE ""
      [] step.type = "wait_for_image" ->
            LET regionArg == IF step.region # NOREGION
                             THEN RegionArg(step.region) ELSE ""
                hintArg ==
                    IF step.region # NOREGION
                    THEN ", hint=("
                           \o ToString(RoundHalf(step.region.x,
                                                 step.region.width))
                           \o ", "
                           \o ToString(RoundHalf(step.region.y,
                                                 step.region.height))
                           \o ")"
                    ELSE IF HasCoords(step)
                    THEN ", hint=(" \o RoundText(step.x) \o ", "
                             \o RoundText(step.y) \o ")"
                    ELSE ""
            IN  "vnc.wait_for_image(\"" \o step.template \o "\", timeout="
                    \o ToString(IF step.timeout \in {UNDEF, 0} THEN 30
                                ELSE step.timeout)
                    \o regionArg \o hintArg \o ")"
      [] step.type = "wait_for_text" ->
            "vnc.wait_for_text(\"" \o EscapeQuotes(step.text)
                \o "\", timeout="
                \o ToString(IF step.timeout \in {UNDEF, 0} THEN 30
                            ELSE step.timeout)
                \o (IF step.region # NOREGION
                    THEN RegionArg(step.region) ELSE "")
                \o (IF step.case_sensitive
                    THEN ", case_sensitive=true" ELSE "")
                \o ")"
      [] step.type = "wait" ->
            "vnc.wait(" \o ToString(IF step.duration \in {UNDEF, 0} THEN 1
                                     ELSE step.duration) \o ")"
      [] step.type = "screenshot" -> "vnc.save_screenshot(\"screenshot.png\")"
      [] step.type = "drag" ->
            "vnc.drag(" \o ToString(step.x) \o ", " \o ToString(step.y)
                \o ", " \o ToString(step.end_x) \o ", "
                \o ToString(step.end_y) \o ")"
      [] OTHER -> ""

\* [...steps].sort((a, b) => a.order - b.order): a stable sort by order
RECURSIVE InsertByOrder(_, _)
InsertByOrder(sorted, step) ==
    IF Len(sorted) = 0 THEN <<step>>
    ELSE IF sorted[Len(sorted)].order <= step.order
    THEN Append(sorted, step)
    ELSE Append(InsertByOrder(SubSeq(sorted, 1, Len(sorted) - 1), step),
                sorted[Len(sorted)])

RECURSIVE SortByOrder(_)
SortByOrder(steps) ==
    IF Len(steps) = 0 THEN <<>>
    ELSE InsertByOrder(SortByOrder(SubSeq(steps, 1, Len(steps) - 1)),
                       steps[Len(steps)])

\* the lines generateCode pushes for one step
StepLines(step) ==
    LET codeLine == stepToCode(step) IN
    (IF step.delay_before # UNDEF /\ step.delay_before > 1
     THEN <<"    vnc.wait(" \o FormatTenths(step.delay_before) \o ")">>
     ELSE <<>>)
    \o (IF codeLine # ""
        THEN (IF step.description # ""
              THEN <<"    # " \o step.description>> ELSE <<>>)
             \o <<"    " \o codeLine>>
        ELSE <<>>)

RECURSIVE BodyLines(_)
BodyLines(sortedSteps) ==
    IF Len(sortedSteps) = 0 THEN <<>>
    ELSE StepLines(sortedSteps[1]) \o BodyLines(Tail(sortedSteps))

Pad3(n) ==
    IF n < 10 THEN "00" \o ToString(n)
    ELSE IF n < 100 THEN "0" \o ToString(n) ELSE ToString(n)

\* new Date(t).toISOString() for a clock t in milliseconds, t < 1000
toISOString(t) == "2026-01-01T00:00:00." \o Pad3(t) \o "Z"

HarnessLines ==
    << "",
       "if __name__ == \"__main__\":",
       "    from autovnc import VNCClient, ExecutionContext",
       "    import os",
       "",
       "    # Connection configuration",
       "    HOST = os.environ.get(\"VNC_HOST\", \"localhost\")",
       "    PORT = int(os.environ.get(\"VNC_PORT\", 5900))",
       "    PASSWORD = os.environ.get(\"VNC_PASSWORD\", None)",
       "",
       "    client = VNCClient(HOST, PORT, password=PASSWORD)",
       "    try:",
       "        client.connect()",
       "        ctx = ExecutionContext(client)",
       "        ctx.wait(2) # Wait for connection to stabilize",
       "        run(ctx)",
       "    finally:",
       "        # Only disconnect if running in headless mode",
       "        if os.environ.get(\"AUTOVNC_HEADLESS\", \"false\").lower() == \"true\":",
       "            client.disconnect()" >>

\* if (!steps || steps.length === 0) ... else ...: the lines pushed for the
\* argument steps; the arguments undefined and null are written
\* <<JSUndefined>> and <<JSNull>>, which no list of steps equals
StepBody_noPlaceholder(steps) ==
    IF steps \in {<<JSUndefined>>, <<JSNull>>} THEN <<"    pass">>
    ELSE BodyLines(SortByOrder(steps))

StepBody(steps) ==
    IF steps \in {<<JSUndefined>>, <<JSNull>>} THEN <<"    pass">>
    ELSE IF Len(steps) = 0 THEN <<"    pass">>
    ELSE BodyLines(SortByOrder(steps))

\* generateCode, called when the clock (Date) reads t
generateCode(steps, scriptName, description, t) ==
    JoinLines(
        << "\"\"\"",
           "AutoVNC Script: " \o scriptName,
           "Generated: " \o toISOString(t),
           "",
           IF description = "" THEN "No description" ELSE description,
           "\"\"\"",
           "",
           "from autovnc import Keys",
           "",
           "",
           "def run(vnc):",
           "    \"\"\"Execute the automation script.\"\"\"" >>
        \o StepBody(steps)
        \o HarnessLines)

\* the printable ASCII characters of codes 32..95 and 97..126 (the grave
\* accent, code 96, cannot be written in a TLA+ string and is in no text here)
PrintableLow == " !\"#$%&'()*+,-./0123456789:;<=>?@ABCDEFGHIJKLMNOPQRSTUVWXYZ[\\]^_"
PrintableHigh == "abcdefghijklmnopqrstuvwxyz{|}~"

CodeOf(c) ==
    IF c = "\n" THEN 10
    ELSE LET k == IndexOfChar(PrintableLow, c, 1) IN
         IF k > 0 THEN 31 + k ELSE 96 + IndexOfChar(PrintableHigh, c, 1)

CodeTable ==
    [c \in {"\n"} \cup {CharAt(PrintableLow, k) : k \in 1..Len(PrintableLow)}
             \cup {CharAt(PrintableHigh, k) : k \in 1..Len(PrintableHigh)}
       |-> CodeOf(c)]

\* String.prototype.charCodeAt for one character
charCodeAt(c) == CodeTable[c]

\* hash = ((hash << 5) - hash) + char; hash = hash & hash
\* on a 32-bit integer kept as two 16-bit halves <<hi, lo>>
HashStep(h, char) ==
    LET lo == 31 * h[2] + char
        hi == 31 * h[1] + (lo \div 65536)
    IN  <<hi % 65536, lo % 65536>>

\* the hash loop over characters lo..hi of code, started from h; the range
\* is halved so that the evaluation stays shallow, the order is the loop's
RECURSIVE HashRange(_, _, _, _)
HashRange(code, lo, hi, h) ==
    IF lo > hi THEN h
    ELSE IF lo = hi THEN HashStep(h, charCodeAt(CharAt(code, lo)))
    ELSE LET mid == (lo + hi) \div 2
             left == HashRange(code, lo, mid, h)
         IN  IF left[1] < 0 THEN left
             ELSE HashRange(code, mid + 1, hi, left)

HashText(code) == HashRange(code, 1, Len(code), <<0, 0>>)

\* Math.abs of the signed 32-bit value <<hi, lo>>
Abs32(h) ==
    IF h[1] < 32768 THEN h
    ELSE <<(65535 - h[1] + (IF h[2] = 0 THEN 1 ELSE 0)) % 65536,
           (65536 - h[2]) % 65536>>

HexDigits == "0123456789abcdef"

RECURSIVE HexOf(_)
HexOf(n) ==
    IF n < 16 THEN CharAt(HexDigits, n + 1)
    ELSE HexOf(n \div 16) \o CharAt(HexDigits, (n % 16) + 1)

RECURSIVE PadHex4(_)
PadHex4(s) == IF Len(s) < 4 THEN PadHex4("0" \o s) ELSE s

\* Number.prototype.toString(16) of the value <<hi, lo>>
toString16(h) ==
    IF h[1] = 0 THEN HexOf(h[2]) ELSE HexOf(h[1]) \o PadHex4(HexOf(h[2]))

generateCodeWithMetadata(steps, scriptName, description, t) ==
    LET code == generateCode(steps, scriptName, description, t) IN
    [code |-> code,
     lineCount |-> Len(SplitLines(code)),
     hash |-> toString16(Abs32(HashText(code)))]

(***************************************************************************)
(* SpecGen: generateCodeWithMetadata called at different times             *)
(***************************************************************************)
MaxGenCalls == 2
MaxGenClock == 2

BlankStep ==
    [type |-> "click", order |-> 0, x |-> 0, y |-> 0, end_x |-> 0,
     end_y |-> 0, text |-> "", keys |-> <<>>, template |-> "",
     timeout |-> 30, duration |-> 1, region |-> NOREGION,
     case_sensitive |-> FALSE, delay_before |-> UNDEF, description |-> ""]

GenClick == [BlankStep EXCEPT !.x = 150, !.y = 320]
GenType == [BlankStep EXCEPT !.type = "type", !.text = "a\"b", !.order = 1,
                             !.delay_before = 3, !.description = "Type"]

GenScroll == [BlankStep EXCEPT !.type = "scroll", !.order = 2,
                               !.delay_before = 5]

GenStepLists ==
    {<<>>, <<GenClick>>, <<GenType, GenClick>>, <<GenScroll, GenClick>>}
GenNames == {"demo"}
GenDescriptions == {"", "two\nlines"}

InitGen ==
    /\ genClock = 0
    /\ genLog = <<>>
    /\ IdleMerge /\ IdleInsert /\ InitRecorder /\ IdleSteps /\ IdleCall

GenTick ==
    /\ genClock < MaxGenClock
    /\ genClock' = genClock + 1
    /\ UNCHANGED <<genLog, mergeVars, edVars, recVars, stepVars, callVars>>

GenerateCall ==
    /\ Len(genLog) < MaxGenCalls
    /\ \E given \in BOOLEAN, steps \in GenStepLists, name \in GenNames,
          d \in GenDescriptions :
          /\ given \/ steps = <<>>
          /\ genLog' = Append(genLog,
                          [steps |-> steps, given |-> given,
                           scriptName |-> name, description |-> d,
                           out |-> generateCodeWithMetadata(
                                       IF given THEN steps ELSE <<JSUndefined>>,
                                       name, d, genClock)])
    /\ UNCHANGED <<genClock, mergeVars, edVars, recVars, stepVars, callVars>>

NextGen == GenTick \/ GenerateCall

SpecGen == InitGen /\ [][NextGen]_vars

\* C8: two generateCodeWithMetadata calls with identical (steps, scriptName,
\* description) return identical text, lineCount and hash, whenever made.
C8_GenerateDeterministic ==
    \A i, j \in DOMAIN genLog :
        (/\ genLog[i].steps = genLog[j].steps
         /\ genLog[i].given = genLog[j].given
         /\ genLog[i].scriptName = genLog[j].scriptName
         /\ genLog[i].description = genLog[j].description)
            => genLog[i].out = genLog[j].out

(***************************************************************************)
(* components/CodeEditor.jsx: insertCode on the Monaco model               *)
(***************************************************************************)
\* lines[i].match(/^\s*def\s+run\s*\(/)
MatchesDefRun(line) ==
    LET s1 == TrimStart(line) IN
    /\ StartsWith(s1, "def")
    /\ LET s2 == Slice(s1, 3) IN
       /\ Len(s2) > 0 /\ IsSpace(CharAt(s2, 1))
       /\ LET s3 == TrimStart(s2) IN
          /\ StartsWith(s3, "run")
          /\ StartsWith(TrimStart(Slice(s3, 3)), "(")

\* line.match(/^\s*/)[0].length
IndentLength(line) == Len(line) - Len(TrimStart(line))

\* 1-based number of the first line that opens run(), 0 when there is none
RECURSIVE FindRunLine(_, _)
FindRunLine(lines, i) ==
    IF i > Len(lines) THEN 0
    ELSE IF MatchesDefRun(lines[i]) THEN i
    ELSE FindRunLine(lines, i + 1)

\* the scan for the end of the function block from line i on;
\* returns <<insertLine, passLine>>, passLine 0 when no pass was seen
RECURSIVE ScanBlock(_, _, _, _, _)
ScanBlock(lines, i, baseIndentLength, insertLine, passLine) ==
    IF i > Len(lines) THEN <<insertLine, passLine>>
    ELSE LET line == lines[i]
             t == Trim(line)
         IN  IF t # "" /\ ~StartsWith(t, "#")
                /\ IndentLength(line) <= baseIndentLength
             THEN <<insertLine, passLine>>
             ELSE ScanBlock(lines, i + 1, baseIndentLength, i,
                            IF t = "pass" THEN i ELSE passLine)

\* while (insertLine > runFunctionLine && lines[insertLine - 1].trim() === '')
RECURSIVE Backtrack(_, _, _)
Backtrack(lines, insertLine, runFunctionLine) ==
    IF insertLine > runFunctionLine /\ Trim(lines[insertLine]) = ""
    THEN Backtrack(lines, insertLine - 1, runFunctionLine)
    ELSE insertLine

StandardIndent == "    "

\* mutant: the indent is the header's indentation plus four spaces
IndentFor_header(defLine) ==
    SubSeq(defLine, 1, IndentLength(defLine)) \o "    "

\* const indent = '    ' // Standard 4 spaces
IndentFor(defLine) == StandardIndent

findInsertionPosition(value) ==
    LET lines == SplitLines(value)
        runFunctionLine == FindRunLine(lines, 1)
    IN  IF runFunctionLine = 0 THEN [found |-> FALSE]
        ELSE LET scan == ScanBlock(lines, runFunctionLine + 1,
                                   IndentLength(lines[runFunctionLine]),
                                   runFunctionLine, 0)
                 insertLine == Backtrack(lines, scan[1], runFunctionLine)
                 hasPass == scan[2] # 0
             IN  [found |-> TRUE,
                  lineNumber |-> insertLine,
                  indent |-> IndentFor(lines[runFunctionLine]),
                  replacePass |-> hasPass,
                  replaceLine |-> IF hasPass THEN scan[2] ELSE insertLine]

\* text.split('\n').map((line, i) => i === 0 && line === '' ? '' : indent + line)
RECURSIVE IndentForReplace(_, _, _)
IndentForReplace(ls, i, indent) ==
    IF i > Len(ls) THEN <<>>
    ELSE <<IF i = 1 /\ ls[i] = "" THEN "" ELSE indent \o ls[i]>>
             \o IndentForReplace(ls, i + 1, indent)

\* text.split('\n').map(line => line.trim() === '' ? '' : indent + line)
RECURSIVE IndentForAppend(_, _, _)
IndentForAppend(ls, i, indent) ==
    IF i > Len(ls) THEN <<>>
    ELSE <<IF Trim(ls[i]) = "" THEN "" ELSE indent \o ls[i]>>
             \o IndentForAppend(ls, i + 1, indent)

\* the model text after insertCode(text, true) (Monaco path)
insertCode(value, text) ==
    LET lines == SplitLines(value)
        n == Len(lines)
        pos == findInsertionPosition(value)
    IN  IF pos.found
        THEN IF pos.replacePass
             THEN \* Range(replaceLine, 1, replaceLine, length + 1)
                  LET insertText ==
                          JoinLines(IndentForReplace(SplitLines(text), 1,
                                                     pos.indent)) \o "\n"
                  IN  JoinLines(SubSeq(lines, 1, pos.replaceLine - 1)
                                \o <<insertText>>
                                \o SubSeq(lines, pos.replaceLine + 1, n))
             ELSE \* Range(lineNumber + 1, 1, lineNumber + 1, 1); a position
                  \* past the last line is the end of the last line
                  LET insertText ==
                          JoinLines(IndentForAppend(SplitLines(text), 1,
                                                    pos.indent)) \o "\n"
                  IN  IF pos.lineNumber + 1 <= n
                      THEN JoinLines(SubSeq(lines, 1, pos.lineNumber)
                                     \o <<insertText
                                            \o lines[pos.lineNumber + 1]>>
                                     \o SubSeq(lines, pos.lineNumber + 2, n))
                      ELSE value \o insertText
        ELSE \* no run(): end of file
             LET prefix == IF Trim(lines[n]) = "" THEN "" ELSE "\n\n"
             IN  value \o prefix \o text \o "\n"

(***************************************************************************)
(* SpecMerge: one resynthesis over bounded texts                           *)
(***************************************************************************)
MaxOldLen == 3
MaxFullLen == 4
MergeAlphabet == {"a", " ", "\n"}
NewTexts == {"g", "a\ng", ""}

InitMerge ==
    /\ mOld \in StrsUpTo(MergeAlphabet, MaxOldLen)
    /\ mFull \in StrsUpTo(MergeAlphabet, MaxFullLen)
    /\ mNew \in NewTexts
    /\ mOut = [merged |-> "", hasConflict |-> FALSE]
    /\ mDone = FALSE
    /\ IdleGen /\ IdleInsert /\ InitRecorder /\ IdleSteps /\ IdleCall

Resynthesize ==
    /\ ~mDone
    /\ mOut' = mergeGeneratedAndManual(mNew, mOld, mFull)
    /\ mDone' = TRUE
    /\ UNCHANGED <<mNew, mOld, mFull, genVars, edVars, recVars, stepVars, callVars>>

NextMerge == Resynthesize

SpecMerge == InitMerge /\ [][NextMerge]_vars

\* the manual text M when fullCode is oldGenerated + "\n" + M
ManualOf(old, full) == Slice(full, Len(old) + 1)

\* C5: when the live text is exactly G1 + "\n" + M and G2 # G1, resynthesis
\* returns merged = G2 + "\n" + M and reports no conflict.
C5_MergeKeepsManual ==
    (mDone /\ StartsWith(mFull, mOld \o "\n") /\ mNew # mOld)
        => mOut = [merged |-> mNew \o "\n" \o ManualOf(mOld, mFull),
                   hasConflict |-> FALSE]

\* a resynthesis of G1 = "a" with a non-empty manual text has returned
C5_Witness ==
    /\ mDone
    /\ mOld = "a" /\ mNew = "a\ng"
    /\ mFull = "a\n a"
    /\ mOut.merged = "a\ng\n a"

\* C6: in the conflict path every live line after the common line prefix
\* is in the merged text after the new generated text, verbatim and in order.
C6_ConflictKeepsLines ==
    (mDone /\ mOut.hasConflict) =>
        LET fullLines == SplitLines(mFull)
            k == matchIndex(SplitLines(mOld), fullLines, 1)
        IN  mOut.merged = mNew \o "\n"
                \o JoinLines(SubSeq(fullLines, k + 1, Len(fullLines)))

\* C7: no conflict is reported only when the first lines of the live text
\* are line for line the last-known generated text.
C7_NoConflictMeansUntouched ==
    (mDone /\ mOld # "" /\ ~mOut.hasConflict) =>
        LET oldLines == SplitLines(mOld)
            fullLines == SplitLines(mFull)
        IN  /\ Len(fullLines) >= Len(oldLines)
            /\ SubSeq(fullLines, 1, Len(oldLines)) = oldLines

(***************************************************************************)
(* SpecInsert: live insertions into bounded buffers                        *)
(***************************************************************************)
MaxInserts == 2
MaxHeaderIndent == 1        \* header indentation, in units of four spaces

RECURSIVE Spaces(_)
Spaces(n) == IF n = 0 THEN "" ELSE " " \o Spaces(n - 1)

EdSnippets == {"vnc.wait(1)\nvnc.click(1, 2)", "vnc.press(Keys.ENTER)"}

\* bodies of run(), as lines relative to the body indent
EdBodies ==
    { <<"pass">>,
      <<"\"\"\"doc\"\"\"", "pass">>,
      <<"vnc.click(3, 4)">>,
      <<"vnc.click(3, 4)", "# note", "">>,
      <<"if ok:", "    pass", "vnc.click(3, 4)">> }

\* what follows run(): nothing, a blank line, or the harness
EdPosts(h) ==
    { <<>>, <<"">>,
      <<"", Spaces(4 * h) \o "if __name__ == \"__main__\":",
        Spaces(4 * h + 4) \o "run(ctx)">> }

EdWithRun ==
    UNION { { JoinLines(pre
                  \o <<Spaces(4 * h) \o "def run(vnc):">>
                  \o [i \in 1..Len(body) |->
                         IF body[i] = "" THEN ""
                         ELSE Spaces(4 * h + 4) \o body[i]]
                  \o post) :
                pre \in {<<>>, <<"import os", "">>},
                body \in EdBodies,
                post \in EdPosts(h) } : h \in 0..MaxHeaderIndent }

EdWithoutRun == {"", "import os", "import os\n"}

InitInsert ==
    /\ edCode \in EdWithRun \cup EdWithoutRun
    /\ edPrev = ""
    /\ edText = ""
    /\ edCount = 0
    /\ IdleMerge /\ IdleGen /\ InitRecorder /\ IdleSteps /\ IdleCall

InsertCode ==
    /\ edCount < MaxInserts
    /\ \E text \in EdSnippets :
          /\ edCode' = insertCode(edCode, text)
          /\ edText' = text
    /\ edPrev' = edCode
    /\ edCount' = edCount + 1
    /\ UNCHANGED <<mergeVars, genVars, recVars, stepVars, callVars>>

NextInsert == InsertCode

\* the entry function of value has the placeholder as its only body line
OnlyPassBody(value) ==
    LET lines == SplitLines(value)
        r == FindRunLine(lines, 1)
    IN  /\ r > 0 /\ r < Len(lines)
        /\ Trim(lines[r + 1]) = "pass"
        /\ IndentLength(lines[r + 1]) > IndentLength(lines[r])
        /\ \A j \in (r + 2)..Len(lines) :
              (/\ Trim(lines[j]) # ""
               /\ \A k \in (r + 2)..(j - 1) : Trim(lines[k]) = "")
                  => IndentLength(lines[j]) <= IndentLength(lines[r])

\* C9: one live insertion of a two-line snippet into an entry function whose
\* only body line is `pass` leaves exactly the two lines as the body, each at
\* the body's indent level, no `pass`, and the lines outside unchanged (one
\* blank line after the body is tolerated).
C9_PlaceholderReplaced ==
    (/\ edCount >= 1
     /\ OnlyPassBody(edPrev)
     /\ Len(SplitLines(edText)) = 2) =>
        LET lines == SplitLines(edPrev)
            r == FindRunLine(lines, 1)
            bodyIndent == SubSeq(lines[r + 1], 1, IndentLength(lines[r + 1]))
            snippet == SplitLines(edText)
            body == <<bodyIndent \o snippet[1], bodyIndent \o snippet[2]>>
            before == SubSeq(lines, 1, r)
            after == SubSeq(lines, r + 2, Len(lines))
        IN  SplitLines(edCode) \in { before \o body \o after,
                                     before \o body \o <<"">> \o after }

SpecInsert == InitInsert /\ [][NextInsert]_vars

(***************************************************************************)
(* The recorder: VNCViewer.jsx (classifier) and the App's                  *)
(* handleVNCInteraction.  The assertion modes are switched on by the       *)
(* actions of SpecVerify only.                                             *)
(***************************************************************************)
MaxEvents == 4          \* input events delivered in one run
MaxControls == 4        \* commands given in one run
SetupCommands == 3      \* the commands that set a recording session up
TickMs == 100           \* time between two inputs of the user

ClickDelay == 250       \* setTimeout(commitAction, 250)
DragThreshold == 10     \* dx > 10 || dy > 10

\* useState(1024), useState(768)
ScreenSize == [width |-> 1024, height |-> 768]
\* canvas.getBoundingClientRect()
CanvasRect == [left |-> 20, top |-> 40, width |-> 512, height |-> 384]

\* client positions of the pointer: presses and wheel at the first
PressPt == <<120, 140>>
ClientPts == { PressPt, <<131, 140>> }
Buttons == {0, 2}
Details == {1, 2, 3}
MultiClickMs == 500     \* the system's double-click interval


\* Math.round(a / b) for a >= 0, b > 0
RoundDiv(a, b) == (2 * a + b) \div (2 * b)

Clamp(v, lo, hi) == IF v < lo THEN lo ELSE IF v > hi THEN hi ELSE v

scaleCoordinates(clientX, clientY) ==
    LET canvasX == clientX - CanvasRect.left
        canvasY == clientY - CanvasRect.top
        remoteX == RoundDiv(canvasX * ScreenSize.width, CanvasRect.width)
        remoteY == RoundDiv(canvasY * ScreenSize.height, CanvasRect.height)
    IN  [x |-> Clamp(remoteX, 0, ScreenSize.width - 1),
         y |-> Clamp(remoteY, 0, ScreenSize.height - 1)]

\* delay_before in tenths of a second: Math.round((now - last) / 100) / 10
DelayBefore(last, t) == IF last = NOTIME THEN 0 ELSE RoundDiv(t - last, 100)

\* const size = 80: the side of the capture window in canvas pixels
CaptureSize == 80

\* stepData.smartTemplate, the image, as the area of the frame it shows:
\* drawImage(canvas, captureX * scaleX, captureY * scaleY, remoteWidth,
\* remoteHeight, ...) copies the part of that window that lies in the frame
CaptureArea(pt) ==
    LET Max0(v) == IF v < 0 THEN 0 ELSE v
        Min(a, b) == IF a < b THEN a ELSE b
        captureX == Max0(pt[1] - CanvasRect.left - CaptureSize \div 2)
        captureY == Max0(pt[2] - CanvasRect.top - CaptureSize \div 2)
        remoteWidth == RoundDiv(CaptureSize * ScreenSize.width,
                                CanvasRect.width)
        remoteHeight == RoundDiv(CaptureSize * ScreenSize.height,
                                 CanvasRect.height)
        x == (captureX * ScreenSize.width) \div CanvasRect.width
        y == (captureY * ScreenSize.height) \div CanvasRect.height
    IN  [x |-> x, y |-> y,
         width |-> Min(remoteWidth, ScreenSize.width - x),
         height |-> Min(remoteHeight, ScreenSize.height - y)]

\* the fields of stepData the App reads
BlankStepData ==
    [type |-> "", originalType |-> "", x |-> UNDEF, y |-> UNDEF,
     end_x |-> UNDEF, end_y |-> UNDEF, keys |-> <<>>, text |-> "",
     direction |-> "", delay_before |-> UNDEF, timestamp |-> 0,
     width |-> UNDEF, height |-> UNDEF, region |-> NORECT,
     smartTemplate |-> NORECT]

\* JSON.stringify of a string without control characters
JSONStringify(str) ==
    LET Esc(c) == IF c = "\"" THEN "\\\"" ELSE IF c = "\\" THEN "\\\\" ELSE c
        F[i \in 0..Len(str)] ==
            IF i = 0 THEN "" ELSE F[i - 1] \o Esc(CharAt(str, i))
    IN  "\"" \o F[Len(str)] \o "\""

\* JSON.stringify of an array of strings
JSONStringifyKeys(keys) ==
    LET F[i \in 0..Len(keys)] ==
            IF i = 0 THEN ""
            ELSE F[i - 1] \o (IF i > 1 THEN "," ELSE "")
                          \o JSONStringify(keys[i])
    IN  "[" \o F[Len(keys)] \o "]"

Point(x, y) == ToString(x) \o ", " \o ToString(y)

\* the synchronous cases of the switch; "" when nothing is inserted
Snippet(stepData) ==
    CASE stepData.type = "click" ->
             "vnc.click(" \o Point(stepData.x, stepData.y) \o ")"
      [] stepData.type = "right_click" ->
             "vnc.right_click(" \o Point(stepData.x, stepData.y) \o ")"
      [] stepData.type = "type" ->
             "vnc.type(" \o JSONStringify(stepData.text) \o ")"
      [] stepData.type = "key_press" ->
             "vnc.press(\"" \o stepData.keys[1] \o "\")"
      [] stepData.type = "key_combo" ->
             "vnc.key_combo(" \o JSONStringifyKeys(stepData.keys) \o ")"
      [] stepData.type = "wait_for_text" ->
             "vnc.wait_for_text("
                 \o JSONStringify(IF stepData.text = "" THEN "Success"
                                  ELSE stepData.text)
                 \o ", timeout=30"
                 \o (IF stepData.x # UNDEF /\ stepData.y # UNDEF
                     THEN ", hint=(" \o Point(stepData.x, stepData.y) \o ")"
                     ELSE "")
                 \o ")"
      [] OTHER -> ""

\* the name the storage gives the template of capture id
TemplateName(id) == "smart_" \o ToString(id) \o ".png"

\* mutant: a failed capture leaves a comment, as the wait_for_image case does
SmartCode_comment(stepData, filename, ok) ==
    LET hint == "\", timeout=30.0, hint=("
                    \o Point(stepData.x, stepData.y) \o "))"
    IN  IF ~ok
        THEN "# Failed to capture template"
        ELSE CASE stepData.originalType = "click" ->
                      "vnc.click(\"" \o filename \o hint
               [] stepData.originalType = "right_click" ->
                      "vnc.right_click(\"" \o filename \o hint
               [] stepData.originalType = "double_click" ->
                      "vnc.double_click(\"" \o filename \o hint
               [] OTHER -> ""

\* the code of a settled smart_click capture
SmartCode(stepData, filename, ok) ==
    LET hint == "\", timeout=30.0, hint=("
                    \o Point(stepData.x, stepData.y) \o "))"
    IN  IF ~ok
        THEN "vnc.click(" \o Point(stepData.x, stepData.y) \o ")"
        ELSE CASE stepData.originalType = "click" ->
                      "vnc.click(\"" \o filename \o hint
               [] stepData.originalType = "right_click" ->
                      "vnc.right_click(\"" \o filename \o hint
               [] stepData.originalType = "double_click" ->
                      "vnc.double_click(\"" \o filename \o hint
               [] OTHER -> ""

\* err.message of a rejected storage call
ErrMessage == "Network Error"

\* the code of a settled wait_for_image capture; timeout is 30.0, printed 30
AssertionCode(stepData, filename, ok) ==
    LET sized == stepData.width # UNDEF /\ stepData.height # UNDEF
        hintX == IF sized THEN RoundDiv(2 * stepData.x + stepData.width, 2)
                 ELSE stepData.x
        hintY == IF sized THEN RoundDiv(2 * stepData.y + stepData.height, 2)
                 ELSE stepData.y
    IN  IF ~ok
        THEN "# Failed to capture assertion: " \o ErrMessage
        ELSE "vnc.wait_for_image(\"" \o filename \o "\", timeout=30, hint=("
                 \o Point(hintX, hintY) \o "))"

\* the code a settled storage call inserts
SettledCode(stepData, filename, ok) ==
    IF stepData.type = "wait_for_image"
    THEN AssertionCode(stepData, filename, ok)
    ELSE SmartCode(stepData, filename, ok)

\* the cases of the switch that start a storage call and return
AsyncTypes == {"smart_click", "wait_for_image"}

\* the vnc.wait line put before the snippet, and lastRecordTimeRef after
WaitPrefix(stepData) ==
    IF stepData.delay_before # UNDEF /\ stepData.delay_before > 1
    THEN [code |-> "vnc.wait(" \o FormatTenths(stepData.delay_before) \o ")\n",
          lastRecordTime |-> lastRecordTime]
    ELSE IF lastRecordTime # NOTIME
    THEN LET diffMs == stepData.timestamp - lastRecordTime IN
         [code |-> IF diffMs > 1000 /\ diffMs < 30000
                   THEN "vnc.wait(" \o FormatTenths(RoundDiv(diffMs, 100))
                                    \o ")\n"
                   ELSE "",
          lastRecordTime |-> stepData.timestamp]
    ELSE [code |-> "", lastRecordTime |-> stepData.timestamp]

\* editorRef.current.insertCode(text, true) on the script now displayed,
\* followed by onCodeChange; origin is the script of the calling closure
EditorInsert(id, origin, text) ==
    /\ codeByScript' = [codeByScript EXCEPT
                           ![currentScript] = insertCode(@, text)]
    /\ dirtyScripts' = dirtyScripts \cup {currentScript}
    /\ insLog' = Append(insLog, [id |-> id, script |-> currentScript,
                                 origin |-> origin, text |-> text])

\* mutant: the early return does not test isRecording
handleVNCInteraction_anyTime(stepData, id, hRec, hPaused, hScript) ==
    IF hPaused \/ currentScript = NONE
    THEN UNCHANGED <<lastRecordTime, codeVars, inflight, insLog>>
    ELSE LET w == WaitPrefix(stepData)
             snippet == Snippet(stepData)
         IN  /\ lastRecordTime' = w.lastRecordTime
             /\ IF stepData.type \in AsyncTypes
                THEN /\ inflight' = inflight \cup
                            {[id |-> id, script |-> hScript,
                              codeToInsert |-> w.code, stepData |-> stepData]}
                     /\ UNCHANGED <<codeVars, insLog>>
                ELSE IF snippet = ""
                THEN UNCHANGED <<codeVars, inflight, insLog>>
                ELSE /\ EditorInsert(id, hScript, w.code \o snippet)
                     /\ UNCHANGED inflight

\* handleVNCInteraction as the closure that captured hRec, hPaused, hScript;
\* id numbers the call
handleVNCInteraction(stepData, id, hRec, hPaused, hScript) ==
    IF ~hRec \/ hPaused \/ currentScript = NONE
    THEN UNCHANGED <<lastRecordTime, codeVars, inflight, insLog>>
    ELSE LET w == WaitPrefix(stepData)
             snippet == Snippet(stepData)
         IN  /\ lastRecordTime' = w.lastRecordTime
             /\ IF stepData.type \in AsyncTypes
                THEN /\ inflight' = inflight \cup
                            {[id |-> id, script |-> hScript,
                              codeToInsert |-> w.code, stepData |-> stepData]}
                     /\ UNCHANGED <<codeVars, insLog>>
                ELSE IF snippet = ""
                THEN UNCHANGED <<codeVars, inflight, insLog>>
                ELSE /\ EditorInsert(id, hScript, w.code \o snippet)
                     /\ UNCHANGED inflight

\* onInteraction(stepData) by a handler that captured hRec, hPaused, hScript;
\* ev is the number of the input event behind the stepData
Commit(stepData, ev, hRec, hPaused, hScript) ==
    /\ committed' = Append(committed, [ev |-> ev, stepData |-> stepData,
                                       recording |-> hRec])
    /\ handleVNCInteraction(stepData, Len(committed) + 1,
                            hRec, hPaused, hScript)

\* the timers left by: if (clickTimeoutRef.current) clearTimeout(...)
ClearClickTimeout_kept(pending, ref) == pending

ClearClickTimeout(pending, ref) == {t \in pending : t.ev # ref}

ClickType(button, detail) ==
    IF button = 2 THEN "right_click"
    ELSE IF detail = 2 THEN "double_click" ELSE "click"

\* processMouseAction(e, forcedButton, forcedDetail) of the render in which
\* isSmartRecord was smart; viaRelease tells the caller for the history
processMouseAction(pt, button, detail, smart, viaRelease) ==
    LET coords == scaleCoordinates(pt[1], pt[2])
        kind == ClickType(button, detail)
        useSmart == isRecording /\ smart
        stepData == [BlankStepData EXCEPT
                        !.type = IF useSmart THEN "smart_click" ELSE kind,
                        !.originalType = IF useSmart THEN kind ELSE "",
                        !.smartTemplate = IF useSmart THEN CaptureArea(pt)
                                          ELSE NORECT,
                        !.x = coords.x, !.y = coords.y,
                        !.timestamp = now',
                        !.delay_before = DelayBefore(lastActionTime, now')]
        cleared == ClearClickTimeout(timers, clickTimeoutRef)
        ev == evCount + 1
    IN  /\ lastActionTime' = now'
        /\ classified' = Append(classified,
               [ev |-> ev, kind |-> kind, pt |-> pt,
                press |-> IF viaRelease THEN dragData.clientStart ELSE pt,
                pressEv |-> IF viaRelease THEN dragData.ev ELSE ev,
                t |-> now', viaRelease |-> viaRelease, detail |-> detail,
                moved |-> IF viaRelease THEN dragData.moved ELSE 0,
                recording |-> isRecording])
        /\ IF kind = "click"
           THEN /\ timers' = cleared \cup
                       {[ev |-> ev, deadline |-> now' + ClickDelay,
                         stepData |-> stepData, hRec |-> isRecording,
                         hPaused |-> isPaused, hScript |-> currentScript]}
                /\ clickTimeoutRef' = ev
                /\ UNCHANGED <<committed, lastRecordTime, codeVars,
                               inflight, insLog>>
           ELSE /\ timers' = cleared
                /\ clickTimeoutRef' = 0
                /\ Commit(stepData, ev, isRecording, isPaused, currentScript)

\* the user's next input comes TickMs after the previous step; a timer due
\* before that has run by then
UserActs ==
    /\ \A t \in timers : t.deadline >= now + TickMs
    /\ now' = now + TickMs

\* an input event reaches the mounted VNCViewer and changes its state; the
\* events a handler returns from at once are not numbered
Deliver ==
    /\ connected
    /\ evCount < MaxEvents
    /\ evCount' = evCount + 1
    /\ UserActs

Ignore == connected /\ UNCHANGED <<evCount, now>>

\* what the recorder does not touch; notRec for the handlers that leave the
\* assertion modes alone as well
idleVars == <<mergeVars, genVars, edVars, stepVars, callVars>>
notRec == <<idleVars, selVars, tabVars>>
appVars == <<connected, isRecording, isPaused, currentScript,
             ctlCount, inflightAtStop, settled>>
vncVars == <<isSmartRecord, lastActionTime, dragData, clickTimeoutRef>>
histVars == <<evCount, lastDown, classified, committed, insLog,
              inflightAtStop, settled>>

\* setIsSelecting(false); setSelectionStart(null); setSelectionRect(null)
ResetSelection ==
    /\ isSelecting' = FALSE
    /\ selectionStart' = NOPOINT
    /\ selectionRect' = NORECT

\* e.detail of a mousedown: the browser's click count
ClickCount(pt, button) ==
    IF /\ lastDown.count > 0 /\ lastDown.pt = pt /\ lastDown.button = button
       /\ now' - lastDown.t <= MultiClickMs
    THEN lastDown.count + 1 ELSE 1

handleMouseDown(pt, button, detail) ==
    /\ IF isRecording /\ isPaused THEN Ignore ELSE Deliver
    /\ detail = ClickCount(pt, button)
    /\ lastDown' = [count |-> detail, pt |-> pt, button |-> button, t |-> now']
    /\ IF isRecording /\ isPaused
       THEN UNCHANGED <<dragData, lastActionTime, classified, timers,
                        clickTimeoutRef, committed, lastRecordTime,
                        codeVars, inflight, insLog, selVars>>
       ELSE IF isRecording /\ (isVerifyMode \/ isVerifyTextMode)
       THEN LET mouseX == pt[1] - CanvasRect.left
                mouseY == pt[2] - CanvasRect.top
            IN  /\ isSelecting' = TRUE
                /\ selectionStart' = [x |-> mouseX, y |-> mouseY]
                /\ selectionRect' = [x |-> mouseX, y |-> mouseY,
                                     width |-> 0, height |-> 0]
                /\ UNCHANGED <<isVerifyMode, isVerifyTextMode, ocrModal>>
                /\ UNCHANGED <<dragData, lastActionTime, classified, timers,
                               clickTimeoutRef, committed, lastRecordTime,
                               codeVars, inflight, insLog>>
       ELSE IF isRecording /\ button = 0
       THEN /\ dragData' = [active |-> TRUE,
                            start |-> scaleCoordinates(pt[1], pt[2]),
                            clientStart |-> pt, isDragging |-> FALSE,
                            button |-> button, detail |-> detail,
                            ev |-> evCount + 1,   \* history: the press
                            moved |-> 0]          \* history: see below
            /\ UNCHANGED <<lastActionTime, classified, timers,
                           clickTimeoutRef, committed, lastRecordTime,
                           codeVars, inflight, insLog, selVars>>
       ELSE /\ processMouseAction(pt, button, detail, isSmartRecord, FALSE)
            /\ UNCHANGED <<dragData, selVars>>
    /\ UNCHANGED <<appVars, isSmartRecord, upSmart>>
    /\ UNCHANGED <<idleVars, tabVars>>

Abs(v) == IF v < 0 THEN -v ELSE v

\* mutant: a displacement equal to the threshold already counts
CrossesThreshold_inclusive(dx, dy) == dx >= DragThreshold \/ dy >= DragThreshold

\* if (dx > 10 || dy > 10)
CrossesThreshold(dx, dy) == dx > DragThreshold \/ dy > DragThreshold

\* dragData.moved is history: the largest displacement on one axis among the
\* moves the handler has looked at since the press
handleMouseMoveCapture(pt) ==
    /\ IF ~dragData.active \/ dragData.isDragging
       THEN Ignore /\ UNCHANGED dragData
       ELSE LET dx == Abs(pt[1] - dragData.clientStart[1])
                dy == Abs(pt[2] - dragData.clientStart[2])
                far == IF dx > dy THEN dx ELSE dy
                seen == IF far > dragData.moved THEN far ELSE dragData.moved
            IN  IF CrossesThreshold(dx, dy)
                THEN Deliver /\ dragData' = [dragData EXCEPT
                                                !.isDragging = TRUE,
                                                !.moved = seen]
                ELSE Ignore /\ dragData' = [dragData EXCEPT !.moved = seen]
    /\ UNCHANGED <<appVars, lastDown, isSmartRecord, upSmart, lastActionTime,
                   classified, timers, clickTimeoutRef, committed,
                   lastRecordTime, codeVars, inflight, insLog>>
    /\ UNCHANGED notRec

\* the stepData of a drag from the recorded press to the release at coords
DragStepData_swapped(data, coords) ==
    [BlankStepData EXCEPT
        !.type = "drag", !.x = coords.x, !.y = coords.y,
        !.end_x = data.start.x, !.end_y = data.start.y,
        !.timestamp = now',
        !.delay_before = DelayBefore(lastActionTime, now')]

DragStepData(data, coords) ==
    [BlankStepData EXCEPT
        !.type = "drag", !.x = data.start.x, !.y = data.start.y,
        !.end_x = coords.x, !.end_y = coords.y,
        !.timestamp = now',
        !.delay_before = DelayBefore(lastActionTime, now')]

handleMouseUpCapture(pt) ==
    /\ IF ~dragData.active THEN Ignore ELSE Deliver
    /\ IF ~dragData.active
       THEN UNCHANGED <<dragData, lastActionTime, classified, timers,
                        clickTimeoutRef, committed, lastRecordTime,
                        codeVars, inflight, insLog>>
       ELSE /\ IF dragData.isDragging
               THEN /\ lastActionTime' = now'
                    /\ classified' = Append(classified,
                           [ev |-> evCount + 1, kind |-> "drag", pt |-> pt,
                            press |-> dragData.clientStart,
                            pressEv |-> dragData.ev, t |-> now',
                            viaRelease |-> TRUE, moved |-> dragData.moved,
                            detail |-> dragData.detail,
                            recording |-> isRecording])
                    /\ Commit(DragStepData(dragData,
                                           scaleCoordinates(pt[1], pt[2])),
                              evCount + 1, isRecording, isPaused,
                              currentScript)
                    /\ UNCHANGED <<timers, clickTimeoutRef>>
               ELSE processMouseAction(pt, dragData.button, dragData.detail,
                                       upSmart, TRUE)
            /\ dragData' = NODRAG
    /\ UNCHANGED <<appVars, lastDown, isSmartRecord, upSmart>>
    /\ UNCHANGED notRec

\* keydown events: e.key with its modifier flags and e.repeat
KeyEvent(key, ctrl, shift, repeat) ==
    [key |-> key, ctrlKey |-> ctrl, altKey |-> FALSE, shiftKey |-> shift,
     repeat |-> repeat]

KeyEvents ==
    { KeyEvent("a", FALSE, FALSE, FALSE), KeyEvent("c", TRUE, FALSE, FALSE),
      KeyEvent("Shift", FALSE, TRUE, FALSE), KeyEvent("a", FALSE, FALSE, TRUE) }

\* mutant: e.key is recorded as it comes
specialKeys_raw(key) == key

specialKeys(key) ==
    CASE key = "Enter" -> "enter" [] key = "Tab" -> "tab"
      [] key = "Escape" -> "escape" [] key = "Backspace" -> "backspace"
      [] key = "Delete" -> "delete" [] key = "ArrowUp" -> "up"
      [] key = "ArrowDown" -> "down" [] key = "ArrowLeft" -> "left"
      [] key = "ArrowRight" -> "right" [] OTHER -> key

playerInputIsMeaningful(key) == key \notin {"Shift", "Control", "Alt", "Meta"}

handleKeyDown(e) ==
    /\ IF e.repeat \/ (isRecording /\ isPaused)
           \/ ~playerInputIsMeaningful(specialKeys(e.key))
       THEN Ignore ELSE Deliver
    /\ IF e.repeat \/ (isRecording /\ isPaused)
           \/ ~playerInputIsMeaningful(specialKeys(e.key))
       THEN UNCHANGED <<lastActionTime, committed, lastRecordTime,
                        codeVars, inflight, insLog>>
       ELSE LET modifiers == (IF e.ctrlKey THEN <<"ctrl">> ELSE <<>>)
                          \o (IF e.altKey THEN <<"alt">> ELSE <<>>)
                          \o (IF e.shiftKey THEN <<"shift">> ELSE <<>>)
                keyName == specialKeys(e.key)
                stepData == [BlankStepData EXCEPT
                    !.type = IF Len(modifiers) > 0 THEN "key_combo"
                             ELSE IF Len(keyName) = 1 THEN "type"
                             ELSE "key_press",
                    !.keys = modifiers \o <<keyName>>,
                    !.text = IF Len(keyName) = 1 /\ Len(modifiers) = 0
                             THEN keyName ELSE "",
                    !.timestamp = now',
                    !.delay_before = DelayBefore(lastActionTime, now')]
            IN  /\ lastActionTime' = now'
                /\ Commit(stepData, evCount + 1, isRecording, isPaused,
                          currentScript)
    /\ UNCHANGED <<appVars, lastDown, isSmartRecord, upSmart, dragData, classified,
                   timers, clickTimeoutRef>>
    /\ UNCHANGED notRec

handleWheelCapture(pt, deltaY) ==
    /\ IF ~isRecording \/ isPaused THEN Ignore ELSE Deliver
    /\ IF ~isRecording \/ isPaused
       THEN UNCHANGED <<lastActionTime, committed, lastRecordTime,
                        codeVars, inflight, insLog>>
       ELSE LET coords == scaleCoordinates(pt[1], pt[2])
                stepData == [BlankStepData EXCEPT
                    !.type = "scroll",
                    !.direction = IF deltaY > 0 THEN "down" ELSE "up",
                    !.x = coords.x, !.y = coords.y,
                    !.timestamp = now',
                    !.delay_before = DelayBefore(lastActionTime, now')]
            IN  /\ lastActionTime' = now'
                /\ Commit(stepData, evCount + 1, isRecording, isPaused,
                          currentScript)
    /\ UNCHANGED <<appVars, lastDown, isSmartRecord, upSmart, dragData, classified,
                   timers, clickTimeoutRef>>
    /\ UNCHANGED notRec

\* the 250 ms timer of a buffered click runs its commitAction
commitAction ==
    \E t \in timers :
        /\ t.deadline <= now
        /\ timers' = timers \ {t}
        /\ clickTimeoutRef' =
               IF clickTimeoutRef = t.ev THEN 0 ELSE clickTimeoutRef
        /\ Commit(t.stepData, t.ev, t.hRec, t.hPaused, t.hScript)
        /\ UNCHANGED <<now, appVars, isSmartRecord, upSmart, lastActionTime,
                       dragData, evCount, lastDown, classified>>
        /\ UNCHANGED notRec

\* time passes until the next timer is due
Tick ==
    /\ timers # {}
    /\ \A t \in timers : t.deadline > now
    /\ now' = CHOOSE d \in {t.deadline : t \in timers} :
                  \A t \in timers : d <= t.deadline
    /\ UNCHANGED <<connected, isRecording, isPaused, currentScript,
                   codeVars, lastRecordTime, isSmartRecord, upSmart,
                   lastActionTime, dragData, clickTimeoutRef, timers,
                   inflight, ctlCount, histVars>>
    /\ UNCHANGED notRec

\* the user gives a command (toolbar, dialog, explorer)
Command ==
    /\ ctlCount < MaxControls
    /\ ctlCount' = ctlCount + 1
    /\ UserActs

\* setOpenScripts(prev => prev.includes(name) ? prev : [...prev, name])
Opened(tabs, name) ==
    IF \E i \in DOMAIN tabs : tabs[i] = name THEN tabs ELSE Append(tabs, name)

\* codeByScriptRef after loadScript(name): the cached code, else the stored
Loaded(cache, name) ==
    [cache EXCEPT ![name] = IF @ # UNSET THEN @ ELSE storedCode[name]]

\* if (!hadCached) setDirtyScripts(prev => prev.filter(s => s !== name))
LoadedDirty(dirty, cache, name) ==
    IF cache[name] = UNSET THEN dirty \ {name} ELSE dirty

\* loadScript(name): from the explorer or a tab
loadScript(name) ==
    /\ Command
    /\ currentScript # name
    /\ ~closeConfirm.isOpen
    /\ currentScript' = name
    /\ openScripts' = Opened(openScripts, name)
    /\ codeByScript' = Loaded(codeByScript, name)
    /\ dirtyScripts' = LoadedDirty(dirtyScripts, codeByScript, name)
    /\ upSmart' = isSmartRecord     \* onInteraction is a new function
    /\ UNCHANGED <<connected, isRecording, isPaused, lastRecordTime,
                   vncVars, timers, inflight, histVars>>
    /\ UNCHANGED <<closeConfirm, storedCode>>
    /\ UNCHANGED <<idleVars, selVars>>

\* handleConnect: VNCViewer mounts with fresh state and refs
handleConnect ==
    /\ UserActs /\ UNCHANGED ctlCount    \* reconnecting is not counted
    /\ ~connected
    /\ connected' = TRUE
    /\ isSmartRecord' = TRUE
    /\ upSmart' = TRUE
    /\ dragData' = NODRAG
    /\ clickTimeoutRef' = 0
    /\ lastActionTime' = IF isRecording THEN now' ELSE NOTIME
    /\ isVerifyMode' = FALSE /\ isVerifyTextMode' = FALSE
    /\ ResetSelection
    /\ ocrModal' = [isOpen |-> FALSE, detectedText |-> "",
                    isLoading |-> FALSE, region |-> NORECT]
    /\ UNCHANGED <<isRecording, isPaused, currentScript, codeVars,
                   lastRecordTime, timers, inflight, histVars>>
    /\ UNCHANGED <<idleVars, tabVars>>

\* handleDisconnect: VNCViewer unmounts; its timers stay scheduled
handleDisconnect ==
    /\ Command
    /\ connected
    /\ connected' = FALSE
    /\ UNCHANGED <<isRecording, isPaused, currentScript, codeVars,
                   lastRecordTime, upSmart, vncVars, timers, inflight,
                   histVars>>
    /\ UNCHANGED notRec

\* toggleRecording from the VNCViewer toolbar, with both isRecording effects
toggleRecording ==
    /\ Command
    /\ connected
    /\ isRecording' = ~isRecording
    /\ isPaused' = FALSE
    /\ lastActionTime' = IF isRecording THEN NOTIME ELSE now'
    /\ lastRecordTime' = IF isRecording THEN NOTIME ELSE now'
    /\ upSmart' = isSmartRecord
    /\ inflightAtStop' = IF isRecording
                         THEN inflightAtStop \cup {f.id : f \in inflight}
                         ELSE inflightAtStop
    /\ UNCHANGED <<connected, currentScript, codeVars,
                   isSmartRecord, dragData, clickTimeoutRef, timers,
                   inflight, evCount, lastDown, classified, committed,
                   insLog, settled>>
    /\ UNCHANGED notRec

\* the Smart and Coords buttons, shown while recording
ToggleSmartRecord ==
    /\ Command
    /\ connected /\ isRecording
    /\ isSmartRecord' = ~isSmartRecord
    /\ UNCHANGED <<connected, isRecording, isPaused, currentScript,
                   codeVars, lastRecordTime, upSmart, lastActionTime,
                   dragData, clickTimeoutRef, timers, inflight, histVars>>
    /\ UNCHANGED notRec

\* insertion by a settled capture: editorRef.current?.insertCode(...)
CaptureInsert_ifRecording(f, ok) ==
    IF currentScript # NONE /\ isRecording
    THEN EditorInsert(f.id, f.script, f.codeToInsert
                              \o SettledCode(f.stepData, TemplateName(f.id), ok))
    ELSE UNCHANGED <<codeVars, insLog>>

CaptureInsert(f, ok) ==
    IF currentScript # NONE
    THEN EditorInsert(f.id, f.script, f.codeToInsert
                              \o SettledCode(f.stepData, TemplateName(f.id), ok))
    ELSE UNCHANGED <<codeVars, insLog>>

\* createSmartTemplate of capture f settles: resolved (ok) or rejected
CaptureDone(f, ok) ==
    /\ f \in inflight
    /\ inflight' = inflight \ {f}
    /\ CaptureInsert(f, ok /\ f.script # NONE)
    /\ settled' = Append(settled, [id |-> f.id, ok |-> ok /\ f.script # NONE])
    /\ UNCHANGED <<now, connected, isRecording, isPaused, currentScript,
                   lastRecordTime, upSmart, vncVars, timers, evCount,
                   ctlCount, lastDown, classified, committed,
                   inflightAtStop>>
    /\ UNCHANGED notRec

Next ==
    \/ Tick
    \/ commitAction
    \/ \E f \in inflight, ok \in BOOLEAN : CaptureDone(f, ok)
    \/ \E name \in Scripts : loadScript(name)
    \/ handleConnect
    \/ handleDisconnect
    \/ toggleRecording
    \/ ToggleSmartRecord
    \/ \E b \in Buttons, d \in Details : handleMouseDown(PressPt, b, d)
    \/ \E pt \in ClientPts : handleMouseMoveCapture(pt)
    \/ \E pt \in ClientPts : handleMouseUpCapture(pt)
    \/ \E e \in KeyEvents : handleKeyDown(e)
    \/ \E deltaY \in {-1, 1} : handleWheelCapture(PressPt, deltaY)

Init ==
    InitRecorder /\ IdleMerge /\ IdleGen /\ IdleInsert /\ IdleSteps /\ IdleCall

Spec == Init /\ [][Next]_vars

\* A recording session under way: the state Spec reaches by handleConnect,
\* loadScript("s1") and toggleRecording at Epoch
SessionInit ==
    /\ now = Epoch
    /\ connected = TRUE
    /\ isRecording = TRUE
    /\ isPaused = FALSE
    /\ currentScript = "s1"
    /\ codeByScript = [s \in Scripts |-> IF s = "s1" THEN StoredCode ELSE UNSET]
    /\ dirtyScripts = {}
    /\ openScripts = <<"s1">>
    /\ closeConfirm = NOCONFIRM
    /\ storedCode = [s \in Scripts |-> StoredCode]
    /\ lastRecordTime = Epoch
    /\ isSmartRecord = TRUE
    /\ upSmart = TRUE
    /\ lastActionTime = Epoch
    /\ dragData = NODRAG
    /\ clickTimeoutRef = 0
    /\ timers = {}
    /\ inflight = {}
    /\ evCount = 0
    /\ ctlCount = SetupCommands
    /\ lastDown = NODOWN
    /\ classified = <<>>
    /\ committed = <<>>
    /\ insLog = <<>>
    /\ inflightAtStop = {}
    /\ settled = <<>>
    /\ VerifyOff
    /\ IdleMerge /\ IdleGen /\ IdleInsert /\ IdleSteps /\ IdleCall

SpecSession == SessionInit /\ [][Next]_vars

(***************************************************************************)
(* Claims about the recorder                                               *)
(***************************************************************************)

\* C1: within one script buffer the snippets are inserted in the order in
\* which their Actions were committed, also when a template-storage call
\* settles late.
C1_InsertedInCommitOrder ==
    \A i, j \in DOMAIN insLog :
        (i < j /\ insLog[i].script = insLog[j].script)
            => insLog[i].id < insLog[j].id

\* C2: Actions are committed in the order in which their triggering input
\* events arrived; a click held in the debounce buffer is not committed
\* after the Action of a later event.
C2_CommittedInArrivalOrder ==
    \A i, j \in DOMAIN committed :
        (i < j /\ committed[i].recording /\ committed[j].recording)
            => committed[i].ev < committed[j].ev

\* the type of the Action a stepData stands for
ActionType(stepData) ==
    IF stepData.type = "smart_click" THEN stepData.originalType
    ELSE stepData.type

CommitsOf(evs) == {k \in DOMAIN committed : committed[k].ev \in evs}

\* classified[i] and classified[i + 1] are two primary-button press/release
\* pairs at one point while recording, the second with click count 2 and
\* released less than 250 ms after the first
DoubleClickAt(i) ==
    LET a == classified[i]
        b == classified[i + 1]
    IN  /\ a.kind = "click" /\ b.kind = "double_click"
        /\ a.viaRelease /\ b.viaRelease
        /\ a.recording /\ b.recording
        /\ a.press = b.press /\ a.pt = b.pt /\ a.pt = a.press
        /\ b.t - a.t < ClickDelay

\* C3: such a pair yields exactly one committed Action, a double_click; the
\* buffered click is never committed.
C3_DoubleClickOnce ==
    \A i \in 1..(Len(classified) - 1) :
        DoubleClickAt(i) =>
            LET a == classified[i]
                b == classified[i + 1]
                ks == CommitsOf({a.ev, a.pressEv, b.ev, b.pressEv})
            IN  /\ Cardinality(ks) = 1
                /\ \A k \in ks :
                      /\ committed[k].ev = b.ev
                      /\ ActionType(committed[k].stepData) = "double_click"

C3_Witness ==
    /\ \E i \in 1..(Len(classified) - 1) : DoubleClickAt(i)
    /\ timers = {}
    /\ \E k \in DOMAIN committed :
          ActionType(committed[k].stepData) = "double_click"

\* the drag Action of the classified interaction c
DragOf(c) ==
    LET start == scaleCoordinates(c.press[1], c.press[2])
        end == scaleCoordinates(c.pt[1], c.pt[2])
    IN  [type |-> "drag", x |-> start.x, y |-> start.y,
         end_x |-> end.x, end_y |-> end.y]

IsDragOf(stepData, c) ==
    [type |-> stepData.type, x |-> stepData.x, y |-> stepData.y,
     end_x |-> stepData.end_x, end_y |-> stepData.end_y] = DragOf(c)

\* every interaction classified as a drag has exactly one committed Action,
\* the drag from its press point to its release point
C4_DragCommitted ==
    \A i \in DOMAIN classified :
        classified[i].kind = "drag" =>
            LET c == classified[i]
                ks == CommitsOf({c.ev, c.pressEv})
            IN  /\ Cardinality(ks) = 1
                /\ \A k \in ks : /\ committed[k].ev = c.ev
                                 /\ IsDragOf(committed[k].stepData, c)

\* the step that classifies a drag commits it and clears dragDataRef
C4_DragStep ==
    (/\ Len(classified') = Len(classified) + 1
     /\ classified'[Len(classified')].kind = "drag")
        => /\ dragData' = NODRAG
           /\ Len(committed') = Len(committed) + 1
           /\ IsDragOf(committed'[Len(committed')].stepData,
                       classified'[Len(classified')])

\* C4: a primary-button interaction that crossed the drag threshold commits
\* on release exactly one drag Action from the press point to the release
\* point in remote coordinates, no click or double_click, and leaves
\* dragDataRef null.
C4_DragOnce == []C4_DragCommitted /\ [][C4_DragStep]_vars

C4_Witness ==
    /\ \E i \in DOMAIN classified :
          /\ classified[i].kind = "drag"
          /\ classified[i].pt # classified[i].press
          /\ classified[i].recording
    /\ dragData = NODRAG

(***************************************************************************)
(* SpecLive: a storage call that has been made settles (the promise of     *)
(* createSmartTemplate resolves or rejects)                                *)
(***************************************************************************)
\* the storage call of Action id leaves flight; of the steps of Next only
\* CaptureDone takes a call out of inflight, and it can whenever one is there
CaptureSettles(id) ==
    \E f \in inflight : f.id = id /\ inflight' = inflight \ {f}

MaxLiveEvents == 2      \* input events delivered in one run of SpecLive

LiveFairness == \A id \in 1..MaxLiveEvents : WF_inflight(CaptureSettles(id))

NextLive == Next /\ evCount' <= MaxLiveEvents

SpecLive == SessionInit /\ [][NextLive]_vars /\ LiveFairness

\* the capture of Action id was in flight when recording was stopped and
\* still is
StoppedInFlight(id) ==
    id \in inflightAtStop /\ \E f \in inflight : f.id = id

\* the code of Action id has been inserted into the script it was recorded in
Landed(id) ==
    \E k \in DOMAIN insLog :
        insLog[k].id = id /\ insLog[k].script = insLog[k].origin

\* the script Action id was recorded in is no longer the one displayed
NotOpen(id) == \E f \in inflight : f.id = id /\ currentScript # f.script

\* stopping recording leaves the calls in flight as they are
StopKeepsCaptures == (isRecording /\ ~isRecording') => inflight' = inflight

\* C10: an Action whose template capture is in flight when recording is
\* stopped has its code inserted once the storage call settles, with success
\* or failure, while its script stays displayed; the stop drops no capture.
C10_CaptureLandsAfterStop ==
    /\ \A id \in 1..MaxLiveEvents :
          StoppedInFlight(id) ~> (Landed(id) \/ NotOpen(id))
    /\ [][StopKeepsCaptures]_vars

C10_Witness ==
    /\ ~isRecording
    /\ \E k \in DOMAIN insLog :
          /\ insLog[k].id \in inflightAtStop
          /\ insLog[k].script = insLog[k].origin

(***************************************************************************)
(* Claims about the recorder, continued (SpecSession)                      *)
(***************************************************************************)
\* every insertion made so far belongs to an Action whose event arrived
\* while recording was on
C11_NoLateInsert ==
    \A k \in DOMAIN insLog :
        LET c == committed[insLog[k].id]
        IN  /\ c.recording
            /\ \A i \in DOMAIN classified :
                  classified[i].ev = c.ev => classified[i].recording

\* a step that delivers an input event while recording is off inserts
\* nothing and starts no capture
C11_StoppedStep ==
    (~isRecording /\ evCount' # evCount)
        => /\ insLog' = insLog
           /\ codeByScript' = codeByScript
           /\ inflight' = inflight

\* C11: once recording has been stopped, no pointer, wheel or key event that
\* arrives afterwards (while it stays stopped) causes code to be inserted
\* into the script buffer, at once or later.
C11_NoInsertAfterStop == []C11_NoLateInsert /\ [][C11_StoppedStep]_vars

C11_Witness ==
    /\ ~isRecording
    /\ inflight = {} /\ timers = {}
    /\ \E k \in DOMAIN committed :
          /\ ~committed[k].recording
          /\ Snippet(committed[k].stepData) # ""

EndsWith(s, p) == Len(p) <= Len(s) /\ SubSeq(s, Len(s) - Len(p) + 1, Len(s)) = p

\* the coordinate-only click at the point of stepData
CoordinateClick(stepData) ==
    "vnc.click(" \o ToString(stepData.x) \o ", " \o ToString(stepData.y) \o ")"

\* the step in which a storage call fails: the coordinate click of its Action
\* is inserted, the recording state, the pending timers and the other calls
\* stay as they are
C12_FailStep ==
    (Len(settled') = Len(settled) + 1 /\ ~settled'[Len(settled')].ok) =>
        LET id == settled'[Len(settled')].id
        IN  /\ isRecording' = isRecording /\ isPaused' = isPaused
            /\ connected' = connected /\ currentScript' = currentScript
            /\ timers' = timers /\ dragData' = dragData
            /\ inflight' = {f \in inflight : f.id # id}
            /\ currentScript # NONE =>
                  /\ Len(insLog') = Len(insLog) + 1
                  /\ insLog'[Len(insLog')].id = id
                  /\ insLog'[Len(insLog')].script = currentScript
                  /\ EndsWith(insLog'[Len(insLog')].text,
                              CoordinateClick(committed[id].stepData))
                  /\ codeByScript'[currentScript] # codeByScript[currentScript]

\* after a failure, an event delivered while recording is still committed
\* and its code inserted (or its template capture started)
C12_StillInserts ==
    (/\ \E k \in DOMAIN settled : ~settled[k].ok
     /\ isRecording /\ ~isPaused /\ currentScript # NONE
     /\ evCount' = evCount + 1
     /\ Len(committed') = Len(committed) + 1) =>
        LET id == Len(committed')
            sd == committed'[id].stepData
        IN  /\ sd.type = "smart_click" => \E f \in inflight' : f.id = id
            /\ Snippet(sd) # "" =>
                  /\ Len(insLog') = Len(insLog) + 1
                  /\ insLog'[Len(insLog')].id = id
                  /\ EndsWith(insLog'[Len(insLog')].text, Snippet(sd))

\* C12: when the template-storage call of a template-backed click fails, the
\* coordinate-only click at the same point is inserted instead, isRecording
\* and isPaused are unchanged, and later events are still committed and
\* inserted.
C12_FailureFallsBack == [][C12_FailStep /\ C12_StillInserts]_vars

C12_Witness ==
    /\ isRecording
    /\ \E k \in DOMAIN settled, i, j \in DOMAIN insLog :
          /\ ~settled[k].ok
          /\ insLog[i].id = settled[k].id
          /\ EndsWith(insLog[i].text,
                      CoordinateClick(committed[insLog[i].id].stepData))
          /\ i < j
          /\ committed[insLog[j].id].stepData.type \in {"type", "key_combo"}

(***************************************************************************)
(* SpecDrag: primary-button presses, moves and releases of a recording     *)
(* session, with the pointer moving by up to 11 px on either axis          *)
(***************************************************************************)
DragOffsets == {<<0, 0>>, <<10, 0>>, <<11, 0>>, <<0, 10>>, <<0, 11>>,
                <<-10, -10>>, <<-11, 0>>, <<10, -11>>}
DragPts == {<<PressPt[1] + d[1], PressPt[2] + d[2]>> : d \in DragOffsets}

NextDrag ==
    \/ Tick
    \/ commitAction
    \/ \E f \in inflight, ok \in BOOLEAN : CaptureDone(f, ok)
    \/ \E d \in Details : handleMouseDown(PressPt, 0, d)
    \/ \E pt \in DragPts : handleMouseMoveCapture(pt)
    \/ \E pt \in DragPts : handleMouseUpCapture(pt)

SpecDrag == SessionInit /\ [][NextDrag]_vars

\* while an interaction is pending, it is a drag exactly if some move since
\* the press was more than 10 px away from the press point on one axis
C13_Pending ==
    dragData.active =>
        /\ dragData.moved <= 10 => ~dragData.isDragging
        /\ dragData.moved >= 11 => dragData.isDragging

\* C13: a pending primary-button interaction becomes a drag if and only if
\* some move before the release was displaced from the press point by more
\* than 10 on at least one axis: at most 10 on both axes never yields a
\* drag, 11 on either axis always does.
C13_DragThreshold ==
    /\ C13_Pending
    /\ \A i \in DOMAIN classified :
          classified[i].viaRelease =>
              /\ classified[i].moved <= 10 => classified[i].kind # "drag"
              /\ classified[i].moved >= 11 => classified[i].kind = "drag"

C13_Witness ==
    /\ \E i \in DOMAIN classified :
          /\ classified[i].viaRelease
          /\ classified[i].moved = 10
          /\ classified[i].kind = "click"
    /\ dragData.active /\ dragData.isDragging /\ dragData.moved = 11

(***************************************************************************)
(* SpecSteps: the step list of a script.  createBlankStep and cloneStep    *)
(* are utils/stepUtils.js; the list operations behind onAddStep,           *)
(* onDeleteStep and onReorderSteps are the Step Model's of the             *)
(* specification (append, delete-by-id, move, each renumbering order).     *)
(***************************************************************************)
MaxSteps == 3           \* steps in the list
MaxIds == 4             \* steps created in one run
StepTypes == {"click", "type", "wait"}

\* uuidv4().substring(0, 8): the n-th id handed out
StepId(n) == "id" \o ToString(n)

createBlankStep(type, id) == [id |-> id] @@ [BlankStep EXCEPT !.type = type]

cloneStep(step, id) == [step EXCEPT !.id = id]

\* orders renumbered to the list positions 0..n-1
Renumber(list) == [i \in 1..Len(list) |-> [list[i] EXCEPT !.order = i - 1]]

\* mutant: the step is appended with the order it came with
appendStep_asIs(list, step) == Append(list, step)

appendStep(list, step) == Renumber(Append(list, step))

deleteStep(list, id) == Renumber(SelectSeq(list, LAMBDA st : st.id # id))

\* move(from, to), 0-based positions
moveStep(list, from, to) ==
    LET item == list[from + 1]
        rest == SubSeq(list, 1, from) \o SubSeq(list, from + 2, Len(list))
    IN  Renumber(SubSeq(rest, 1, to) \o <<item>>
                     \o SubSeq(rest, to + 1, Len(rest)))

InitSteps ==
    /\ stepList = <<>>
    /\ idCount = 0
    /\ IdleMerge /\ IdleGen /\ IdleInsert /\ InitRecorder /\ IdleCall

AddStep ==
    /\ Len(stepList) < MaxSteps /\ idCount < MaxIds
    /\ \E type \in StepTypes :
          stepList' = appendStep(stepList,
                                 createBlankStep(type, StepId(idCount + 1)))
    /\ idCount' = idCount + 1
    /\ UNCHANGED <<mergeVars, genVars, edVars, recVars, callVars>>

CloneStep ==
    /\ Len(stepList) < MaxSteps /\ idCount < MaxIds
    /\ \E i \in DOMAIN stepList :
          stepList' = appendStep(stepList,
                                 cloneStep(stepList[i], StepId(idCount + 1)))
    /\ idCount' = idCount + 1
    /\ UNCHANGED <<mergeVars, genVars, edVars, recVars, callVars>>

DeleteStep ==
    /\ \E i \in DOMAIN stepList :
          stepList' = deleteStep(stepList, stepList[i].id)
    /\ UNCHANGED <<idCount, mergeVars, genVars, edVars, recVars, callVars>>

MoveStep ==
    /\ \E from, to \in 0..(Len(stepList) - 1) :
          from # to /\ stepList' = moveStep(stepList, from, to)
    /\ UNCHANGED <<idCount, mergeVars, genVars, edVars, recVars, callVars>>

NextSteps == AddStep \/ CloneStep \/ DeleteStep \/ MoveStep

SpecSteps == InitSteps /\ [][NextSteps]_vars

TypeErrors(step) ==
    CASE step.type \in {"click", "double_click", "right_click"} ->
             IF step.template = ""
                /\ (step.x = JSUndefined \/ step.y = JSUndefined)
             THEN <<"Either template or X,Y coordinates required">>
             ELSE <<>>
      [] step.type = "type" ->
             IF step.text = "" /\ Len(step.keys) = 0
             THEN <<"Either text or keys required">> ELSE <<>>
      [] step.type \in {"key_press", "key_combo"} ->
             IF Len(step.keys) = 0 THEN <<"Keys required">> ELSE <<>>
      [] step.type = "wait_for_image" ->
             IF step.template = ""
             THEN <<"Template image required">> ELSE <<>>
      [] step.type = "wait_for_text" ->
             IF step.text = ""
             THEN <<"Text to wait for is required">> ELSE <<>>
      [] OTHER -> <<>>

\* the result of validateStep(step) and the step as the call leaves it
validateStep(step) ==
    LET errors == (IF step.type = "" THEN <<"Step type is required">>
                   ELSE <<>>) \o TypeErrors(step)
    IN  [step |-> step, isValid |-> Len(errors) = 0, errors |-> errors]

ValidateTypes ==
    {"", "click", "double_click", "right_click", "type", "key_press",
     "key_combo", "wait_for_image", "wait_for_text", "wait", "drag"}
ValidateCoords == {JSUndefined, JSNull, JSNaN, JSNumber(150)}
ValidateSteps ==
    [type : ValidateTypes, template : {"", "ok.png"},
     x : ValidateCoords, y : ValidateCoords,
     text : {"", "a"}, keys : {<<>>, <<"enter">>}]

\* ---- numbers of coordinates.js: IEEE 754 binary64 ----
\* A positive number is [bits, frac]: its significand, most significant bit
\* first, and how many of these bits lie behind the binary point.
Precision == 53

BitLen(n) == CHOOSE k \in 0..30 : n < 2 ^ k /\ (k = 0 \/ n >= 2 ^ (k - 1))

\* the w low bits of n
FixedBits(n, w) == [i \in 1..w |-> (n \div 2 ^ (w - i)) % 2]

IntBits(n) == FixedBits(n, BitLen(n))

RECURSIVE BitsInt(_)
BitsInt(b) ==
    IF b = <<>> THEN 0
    ELSE 2 * BitsInt(SubSeq(b, 1, Len(b) - 1)) + b[Len(b)]

AnyOne(b) == \E i \in 1..Len(b) : b[i] = 1

StripZeros(b) ==
    IF ~AnyOne(b) THEN <<>>
    ELSE SubSeq(b, CHOOSE i \in 1..Len(b) :
                       b[i] = 1 /\ \A j \in 1..(i - 1) : b[j] = 0, Len(b))

IncBits(b) ==
    IF \A i \in 1..Len(b) : b[i] = 1
    THEN <<1>> \o [i \in 1..Len(b) |-> 0]
    ELSE LET z == CHOOSE i \in 1..Len(b) :
                      b[i] = 0 /\ \A j \in (i + 1)..Len(b) : b[j] = 1
         IN  [i \in 1..Len(b) |-> IF i < z THEN b[i] ELSE IF i = z THEN 1 ELSE 0]

\* the nearest number of Precision bits, ties to the even significand;
\* sticky: the exact value has further non-zero bits behind the given ones
RoundToDouble(bits, frac, sticky) ==
    LET b == StripZeros(bits)
        n == Len(b)
    IN  IF n <= Precision THEN [bits |-> b, frac |-> frac]
        ELSE LET keep == SubSeq(b, 1, Precision)
                 rest == sticky \/ AnyOne(SubSeq(b, Precision + 2, n))
                 up == b[Precision + 1] = 1 /\ (rest \/ keep[Precision] = 1)
                 m == IF up THEN IncBits(keep) ELSE keep
             IN  [bits |-> SubSeq(m, 1, Precision),
                  frac |-> frac - (n - Precision) - (Len(m) - Precision)]

\* 2^i modulo b for i <= 90, in powers of at most 2^15
Pow2Mod(i, b) ==
    LET part(j) == (2 ^ Clamp(i - 15 * j, 0, 15)) % b
    IN  ((((((((((part(0) * part(1)) % b) * part(2)) % b)
               * part(3)) % b) * part(4)) % b) * part(5)) % b)

\* the remainder of the long division a / b after i bits behind the point
DivideRem(a, b, i) == ((a % b) * Pow2Mod(i, b)) % b

\* the i-th bit of a / b behind the point
DivideBit(a, b, i) == (2 * DivideRem(a, b, i - 1)) \div b

\* a / b for integers a > 0, b > 0: the quotient is developed to one bit
\* more than the precision and rounded
Divide(a, b) ==
    LET whole == IntBits(a \div b)
        skip == IF whole # <<>> THEN 0
                ELSE (CHOOSE i \in 1..30 :
                          /\ DivideBit(a, b, i) = 1
                          /\ \A j \in 1..(i - 1) : DivideBit(a, b, j) = 0) - 1
        frac == skip + Precision + 1 - Len(whole)
    IN  RoundToDouble(whole \o [i \in 1..(frac - skip) |->
                                    DivideBit(a, b, skip + i)],
                      frac, DivideRem(a, b, frac) # 0)

\* x * d for an integer 0 < x < 2^15: the exact product, computed on the
\* significand in 4 limbs of 15 bits, and rounded
Times(x, d) ==
    LET width == 60
        wide == [i \in 1..width |->
                    IF i <= Len(d.bits) THEN d.bits[i] ELSE 0]
        limb(j) == BitsInt(SubSeq(wide, 15 * (j - 1) + 1, 15 * j))
        base == 2 ^ 15
        p4 == limb(4) * x
        p3 == limb(3) * x + p4 \div base
        p2 == limb(2) * x + p3 \div base
        p1 == limb(1) * x + p2 \div base
    IN  RoundToDouble(FixedBits(p1 \div base, 15)
                        \o FixedBits(p1 % base, 15)
                        \o FixedBits(p2 % base, 15)
                        \o FixedBits(p3 % base, 15)
                        \o FixedBits(p4 % base, 15),
                      d.frac + width - Len(d.bits), FALSE)

\* Math.round(d) and -Math.round(-d) for a positive d below 2^31: the
\* nearest integer, a tie going to the greater one
MathRound(d, negative) ==
    LET n == Len(d.bits) - d.frac
        whole == IF n <= 0 THEN 0 ELSE BitsInt(SubSeq(d.bits, 1, n))
        behind == IF n < 0 THEN <<0>> \o d.bits
                  ELSE SubSeq(d.bits, n + 1, Len(d.bits))
        half == behind # <<>> /\ behind[1] = 1
        more == half /\ AnyOne(Tail(behind))
    IN  IF negative THEN whole + (IF more THEN 1 ELSE 0)
        ELSE whole + (IF half THEN 1 ELSE 0)

\* Math.round(canvas * (remote / size))
ScaleAxis(canvas, remote, size) ==
    IF canvas = 0 THEN 0
    ELSE IF canvas > 0
    THEN MathRound(Times(canvas, Divide(remote, size)), FALSE)
    ELSE 0 - MathRound(Times(0 - canvas, Divide(remote, size)), TRUE)

scaleCoordinatesIn(clientX, clientY, rect, remoteWidth, remoteHeight) ==
    LET canvasX == clientX - rect.left
        canvasY == clientY - rect.top
        remoteX == ScaleAxis(canvasX, remoteWidth, rect.width)
        remoteY == ScaleAxis(canvasY, remoteHeight, rect.height)
    IN  [x |-> Clamp(remoteX, 0, remoteWidth - 1),
         y |-> Clamp(remoteY, 0, remoteHeight - 1)]

\* canvases and the frames they show
ScaleFrames ==
    { [rect |-> [left |-> 0, top |-> 0, width |-> 800, height |-> 600],
       remoteWidth |-> 1600, remoteHeight |-> 1200],
      [rect |-> [left |-> 20, top |-> 40, width |-> 800, height |-> 600],
       remoteWidth |-> 800, remoteHeight |-> 600],
      [rect |-> [left |-> 10, top |-> 10, width |-> 1856, height |-> 1392],
       remoteWidth |-> 800, remoteHeight |-> 600],
      [rect |-> [left |-> 0, top |-> 0, width |-> 3, height |-> 7],
       remoteWidth |-> 1024, remoteHeight |-> 768] }
\* positions of the pointer relative to the canvas
ScaleOffsets(size) == {-5, 0, 1, 2, 145, size \div 2, size - 1, size, size + 7}
ScaleInputs ==
    UNION { { [clientX |-> f.rect.left + dx, clientY |-> f.rect.top + dy,
               rect |-> f.rect, remoteWidth |-> f.remoteWidth,
               remoteHeight |-> f.remoteHeight] :
              dx \in ScaleOffsets(f.rect.width),
              dy \in ScaleOffsets(f.rect.height) } : f \in ScaleFrames }

(***************************************************************************)
(* utils/codeValidation.js                                                 *)
(***************************************************************************)
\* String.prototype.includes
includes(s, p) ==
    \E i \in 1..(Len(s) - Len(p) + 1) : SubSeq(s, i, i + Len(p) - 1) = p

\* the patterns of vncPatterns, each a literal text
vncPatterns ==
    {"client.click(", "client.type(", "client.press(", "client.wait(",
     "vnc.click(", "vnc.type(", "vnc.press(", "vnc.wait("}

\* l.trim().startsWith('import') || l.trim().startsWith('from')
IsImportLine(l) == StartsWith(Trim(l), "import") \/ StartsWith(Trim(l), "from")

\* the text imp.includes() looks for: manualImport.split(' ')[1], undefined
\* being searched as the text "undefined"
SecondWord(line) ==
    LET first == IndexOfChar(line, " ", 1) IN
    IF first = 0 THEN "undefined"
    ELSE LET rest == Slice(line, first)
             next == IndexOfChar(rest, " ", 1)
         IN  IF next = 0 THEN rest ELSE SubSeq(rest, 1, next - 1)

\* the conflicts pushed by the loop over manualImportLines
RECURSIVE DuplicateImports(_, _)
DuplicateImports(importLines, manualImportLines) ==
    IF manualImportLines = <<>> THEN <<>>
    ELSE (IF \E k \in DOMAIN importLines :
                 includes(importLines[k], SecondWord(manualImportLines[1]))
          THEN <<[type |-> "duplicate-import",
                  message |-> "Duplicate import detected: "
                                  \o Trim(manualImportLines[1])]>>
          ELSE <<>>)
         \o DuplicateImports(importLines, Tail(manualImportLines))

detectCodeConflicts(generatedCode, manualCode) ==
    IF manualCode = "" THEN [hasConflicts |-> FALSE, conflicts |-> <<>>]
    ELSE LET conflicts ==
                 (IF \E pattern \in vncPatterns : includes(manualCode, pattern)
                  THEN <<[type |-> "mixed-api",
                          message |-> "Manual code uses VNC API - ensure consistency with generated code"]>>
                  ELSE <<>>)
                 \o DuplicateImports(
                        SelectSeq(SplitLines(generatedCode), IsImportLine),
                        SelectSeq(SplitLines(manualCode), IsImportLine))
                 \o (IF includes(manualCode, "def run(")
                     THEN <<[type |-> "redefine-function",
                             message |-> "Manual code redefines run() function - this will override generated code"]>>
                     ELSE <<>>)
         IN  [hasConflicts |-> Len(conflicts) > 0, conflicts |-> conflicts]

\* generated and manual regions of an editor text
ConflictGenerated == {"", "from autovnc import Keys\n\ndef run(vnc):\n    pass"}
ConflictManual ==
    {"", "x = 1", "def run(vnc):\n    vnc.wait(1)", "def run (vnc):\n    pass",
     "def  run(vnc):\n    pass", "    def run(vnc):", "def running(x):",
     "# def run(vnc) is generated", "vnc.click(1, 2)", "import os",
     "from autovnc import Keys", "    import os",
     "import os\nvnc.click(1, 2)\ndef run(vnc):\n    pass"}

\* code.substring(0, position).split('\n').length
getLineNumber_zeroBased(code, position) ==
    Len(SplitLines(SubSeq(code, 1, position))) - 1

getLineNumber(code, position) == Len(SplitLines(SubSeq(code, 1, position)))

\* const brackets = { '(': ')', '[': ']', '{': '}' }
brackets == [c \in {"(", "[", "{"} |->
                IF c = "(" THEN ")" ELSE IF c = "[" THEN "]" ELSE "}"]

\* the inner while loop over a string literal opened before index i
\* (indices count from 0); the index it stops at
RECURSIVE SkipString(_, _, _)
SkipString(code, i, quote) ==
    IF i < Len(code) /\ CharAt(code, i + 1) # quote
    THEN SkipString(code, (IF CharAt(code, i + 1) = "\\" THEN i + 1 ELSE i) + 1,
                    quote)
    ELSE i

\* the for loop from index i on, with the stack and the errors so far
RECURSIVE ScanBrackets(_, _, _, _)
ScanBrackets(code, i, stack, errors) ==
    IF i >= Len(code) THEN [stack |-> stack, errors |-> errors]
    ELSE IF CharAt(code, i + 1) \in {"\"", "'"}
    THEN ScanBrackets(code, SkipString(code, i + 1, CharAt(code, i + 1)) + 1,
                      stack, errors)
    ELSE IF CharAt(code, i + 1) \in DOMAIN brackets
    THEN ScanBrackets(code, i + 1,
                      Append(stack, [char |-> CharAt(code, i + 1),
                                     line |-> getLineNumber(code, i)]),
                      errors)
    ELSE IF \E k \in DOMAIN brackets : brackets[k] = CharAt(code, i + 1)
    THEN IF /\ Len(stack) > 0
            /\ brackets[stack[Len(stack)].char] = CharAt(code, i + 1)
         THEN ScanBrackets(code, i + 1, SubSeq(stack, 1, Len(stack) - 1),
                           errors)
         ELSE ScanBrackets(code, i + 1, stack,
                  Append(errors,
                         "Unexpected closing bracket '" \o CharAt(code, i + 1)
                             \o "' on line "
                             \o ToString(getLineNumber(code, i))))
    ELSE ScanBrackets(code, i + 1, stack, errors)

validatePythonSyntax(code) ==
    IF Len(Trim(code)) = 0
    THEN [isValid |-> FALSE, errors |-> <<"Code is empty">>, warnings |-> <<>>]
    ELSE LET scan == ScanBrackets(code, 0, <<>>, <<>>)
             errors == scan.errors
                 \o [k \in DOMAIN scan.stack |->
                        "Unclosed bracket '" \o scan.stack[k].char
                            \o "' on line " \o ToString(scan.stack[k].line)]
             warnings ==
                 (IF ~includes(code, "def run")
                  THEN <<"Code should define a run() function">> ELSE <<>>)
                 \o (IF includes(code, "print(") /\ ~includes(code, "# ")
                     THEN <<"Consider using comments instead of print() for debugging">>
                     ELSE <<>>)
         IN  [isValid |-> Len(errors) = 0, errors |-> errors,
              warnings |-> warnings]

\* texts of the editor
MaxCodeLen == 4
CodeChars == {"(", ")", "[", "]", "{", "}", "\"", "'", "\\", "\n", "a"}
CodeTexts == StrsUpTo(CodeChars, MaxCodeLen)

\* click steps as the editor, the recorder and a stored script hold them
ClickSteps ==
    { [BlankStep EXCEPT !.type = ty, !.template = tpl, !.x = x, !.y = y] :
      ty \in {"click", "double_click", "right_click"},
      tpl \in {"", "ok.png"},
      x \in {UNDEF, NULLNUM, NANNUM, 0, 150},
      y \in {UNDEF, NULLNUM, NANNUM, 0, 320} }

\* CodeViewWithMarkers: handleChange(value) for the generatedCode prop; the
\* text it passes to onManualCodeChange
handleChange(generatedCode, value) ==
    LET generatedLineNum == Len(SplitLines(generatedCode))
        lines == SplitLines(value)
    IN  JoinLines(SubSeq(lines, generatedLineNum + 1, Len(lines)))

\* the lines of the editor after the user's edit e of line e.line: the line
\* is changed, a line is added before it, or it is removed
ApplyEdit(lines, e) ==
    CASE e.kind = "change" -> [lines EXCEPT ![e.line] = @ \o "x"]
      [] e.kind = "add" ->
             SubSeq(lines, 1, e.line - 1) \o <<"x">>
                 \o SubSeq(lines, e.line, Len(lines))
      [] e.kind = "remove" ->
             SubSeq(lines, 1, e.line - 1)
                 \o SubSeq(lines, e.line + 1, Len(lines))

\* the code views and the edits made in them; fullCode is
\* generatedCode + '\n' + manualCode
ViewInputs ==
    { [generatedCode |-> g, manualCode |-> m,
       edit |-> [kind |-> k, line |-> i]] :
        g \in {"g", "g\nh"}, m \in {"", "m", "m\nn"},
        k \in {"change", "add", "remove"}, i \in 1..4 }

CallInputs ==
    {[fn |-> "validateStep", arg |-> st] : st \in ValidateSteps}
    \cup {[fn |-> "scaleCoordinates", arg |-> a] : a \in ScaleInputs}
    \cup {[fn |-> "stepToCode", arg |-> st] : st \in ClickSteps}
    \cup {[fn |-> "detectCodeConflicts",
            arg |-> [generatedCode |-> g, manualCode |-> m]] :
           g \in ConflictGenerated, m \in ConflictManual}
    \cup {[fn |-> "validatePythonSyntax", arg |-> c] : c \in CodeTexts}
    \cup {[fn |-> "handleChange", arg |-> v] :
           v \in {w \in ViewInputs :
                     w.edit.line <= Len(SplitLines(w.generatedCode \o "\n"
                                                      \o w.manualCode))}}

InitCall ==
    /\ callArg \in CallInputs
    /\ callRes = ""
    /\ callDone = FALSE
    /\ IdleMerge /\ IdleGen /\ IdleInsert /\ InitRecorder /\ IdleSteps

ValidateStepCall ==
    /\ ~callDone /\ callArg.fn = "validateStep"
    /\ LET r == validateStep(callArg.arg)
       IN  /\ callRes' = [isValid |-> r.isValid, errors |-> r.errors]
           /\ callArg' = [callArg EXCEPT !.arg = r.step]
    /\ callDone' = TRUE
    /\ UNCHANGED <<mergeVars, genVars, edVars, recVars, stepVars>>

ScaleCoordinatesCall ==
    /\ ~callDone /\ callArg.fn = "scaleCoordinates"
    /\ LET a == callArg.arg
       IN  callRes' = scaleCoordinatesIn(a.clientX, a.clientY, a.rect,
                                         a.remoteWidth, a.remoteHeight)
    /\ callDone' = TRUE
    /\ UNCHANGED <<callArg, mergeVars, genVars, edVars, recVars, stepVars>>

StepToCodeCall ==
    /\ ~callDone /\ callArg.fn = "stepToCode"
    /\ callRes' = stepToCode(callArg.arg)
    /\ callDone' = TRUE
    /\ UNCHANGED <<callArg, mergeVars, genVars, edVars, recVars, stepVars>>

DetectCodeConflictsCall ==
    /\ ~callDone /\ callArg.fn = "detectCodeConflicts"
    /\ callRes' = detectCodeConflicts(callArg.arg.generatedCode,
                                      callArg.arg.manualCode)
    /\ callDone' = TRUE
    /\ UNCHANGED <<callArg, mergeVars, genVars, edVars, recVars, stepVars>>

ValidatePythonSyntaxCall ==
    /\ ~callDone /\ callArg.fn = "validatePythonSyntax"
    /\ callRes' = validatePythonSyntax(callArg.arg)
    /\ callDone' = TRUE
    /\ UNCHANGED <<callArg, mergeVars, genVars, edVars, recVars, stepVars>>

\* the user's edit reaches the editor's onChange
HandleChangeCall ==
    /\ ~callDone /\ callArg.fn = "handleChange"
    /\ LET a == callArg.arg
           fullCode == a.generatedCode \o "\n" \o a.manualCode
           value == JoinLines(ApplyEdit(SplitLines(fullCode), a.edit))
       IN  callRes' = handleChange(a.generatedCode, value)
    /\ callDone' = TRUE
    /\ UNCHANGED <<callArg, mergeVars, genVars, edVars, recVars, stepVars>>

NextCall ==
    \/ ValidateStepCall
    \/ ScaleCoordinatesCall
    \/ StepToCodeCall
    \/ DetectCodeConflictsCall
    \/ ValidatePythonSyntaxCall
    \/ HandleChangeCall

SpecCall == InitCall /\ [][NextCall]_vars

\* a coordinate the step has: a number
HasCoord(v) == v.kind = "number"

\* the step violates the required-field set of its type
ViolatesRequired(step) ==
    \/ step.type = ""
    \/ /\ step.type \in {"click", "double_click", "right_click"}
       /\ step.template = ""
       /\ ~(HasCoord(step.x) /\ HasCoord(step.y))
    \/ step.type = "type" /\ step.text = "" /\ step.keys = <<>>
    \/ step.type \in {"key_press", "key_combo"} /\ step.keys = <<>>
    \/ step.type = "wait_for_image" /\ step.template = ""
    \/ step.type = "wait_for_text" /\ step.text = ""

\* C15: validateStep returns isValid = false with a non-empty error list
\* exactly when the step violates the required-field set of its type,
\* isValid = true with no errors otherwise, and leaves the step as it was.
C15_ValidateExact ==
    (callDone /\ callArg.fn = "validateStep") =>
        /\ callRes.isValid = ~ViolatesRequired(callArg.arg)
        /\ callRes.isValid = (callRes.errors = <<>>)
        /\ callArg \in CallInputs

\* round(a / b) of the exact quotient, b > 0, a tie going to the greater
RoundExact(a, b) == (2 * a + b) \div (2 * b)

\* C16: scaleCoordinates maps the display-space point (x, y) to
\* (round(x * remoteWidth / displayWidth), round(y * remoteHeight /
\* displayHeight)), each component clamped to [0, dimension - 1]; the result
\* lies inside the remote frame, is the input point when display and remote
\* sizes are equal and the point is in range, and (400, 300) on an 800x600
\* display of a 1600x1200 frame gives (800, 600).
C16_ScaleFormula ==
    (callDone /\ callArg.fn = "scaleCoordinates") =>
        LET a == callArg.arg
            x == a.clientX - a.rect.left
            y == a.clientY - a.rect.top
        IN  /\ callRes.x = Clamp(RoundExact(x * a.remoteWidth, a.rect.width),
                                 0, a.remoteWidth - 1)
            /\ callRes.y = Clamp(RoundExact(y * a.remoteHeight, a.rect.height),
                                 0, a.remoteHeight - 1)
            /\ callRes.x \in 0..(a.remoteWidth - 1)
            /\ callRes.y \in 0..(a.remoteHeight - 1)
            /\ (/\ a.rect.width = a.remoteWidth
                /\ a.rect.height = a.remoteHeight
                /\ x \in 0..(a.remoteWidth - 1)
                /\ y \in 0..(a.remoteHeight - 1)) => callRes = [x |-> x, y |-> y]
            /\ (/\ a.rect.width = 800 /\ a.rect.height = 600
                /\ a.remoteWidth = 1600 /\ a.remoteHeight = 1200
                /\ x = 400 /\ y = 300) => callRes = [x |-> 800, y |-> 600]

\* the lines of the function that follow its header at line i: the
\* indented lines up to the first line that is not indented
RECURSIVE FunctionBody(_, _)
FunctionBody(lines, i) ==
    IF i > Len(lines) \/ ~StartsWith(lines[i], " ") THEN <<>>
    ELSE <<lines[i]>> \o FunctionBody(lines, i + 1)

\* the body of run() in a generated text, without its documentation string
RunStatements(code) ==
    LET lines == SplitLines(code)
        body == FunctionBody(lines, FindRunLine(lines, 1) + 1)
    IN  IF body # <<>> /\ StartsWith(body[1], "    \"\"\"")
        THEN Tail(body) ELSE body

\* C17: for an empty or missing step list, generateCode produces an entry
\* function run(vnc) whose body is the placeholder statement pass only.
C17_EmptyBodyIsPass ==
    \A i \in DOMAIN genLog :
        (~genLog[i].given \/ genLog[i].steps = <<>>) =>
            LET lines == SplitLines(genLog[i].out.code) IN
            /\ FindRunLine(lines, 1) > 0
            /\ lines[FindRunLine(lines, 1)] = "def run(vnc):"
            /\ RunStatements(genLog[i].out.code) = <<"    pass">>

C17_Witness ==
    \E i, j \in DOMAIN genLog :
        /\ ~genLog[i].given
        /\ genLog[j].given /\ genLog[j].steps = <<>>

\* a coordinate that is known: a number
KnownCoord(v) == v \notin {UNDEF, NULLNUM, NANNUM}

\* C18: for a click, double_click or right_click step, stepToCode emits
\* action("template", timeout=30.0, hint=(x, y)) when a template is set, the
\* hint argument being present exactly when both coordinates are known, and
\* the coordinate form action(x, y) without hint argument when no template
\* is set; x = 150, y = 320 gives vnc.click(150, 320).
C18_ClickForms ==
    (callDone /\ callArg.fn = "stepToCode") =>
        LET step == callArg.arg
            action == "vnc." \o step.type
            known == KnownCoord(step.x) /\ KnownCoord(step.y)
        IN  /\ step.template # "" =>
                callRes = action \o "(\"" \o step.template
                            \o "\", timeout=30.0"
                            \o (IF known
                                THEN ", hint=(" \o ToString(step.x) \o ", "
                                         \o ToString(step.y) \o ")"
                                ELSE "")
                            \o ")"
            /\ step.template = "" =>
                /\ StartsWith(callRes, action \o "(")
                /\ ~includes(callRes, "hint")
                /\ known => callRes = action \o "(" \o ToString(step.x)
                                        \o ", " \o ToString(step.y) \o ")"
            /\ (step.type = "click" /\ step.template = ""
                /\ step.x = 150 /\ step.y = 320) =>
                    callRes = "vnc.click(150, 320)"

\* the text has a line that the live-insertion scan takes for the header of
\* the entry function
DefinesRun(code) ==
    \E k \in DOMAIN SplitLines(code) : MatchesDefRun(SplitLines(code)[k])

ReportsRedefine(res) ==
    \E k \in DOMAIN res.conflicts : res.conflicts[k].type = "redefine-function"

\* C19: when the manual region holds a definition of run (a header the
\* live-insertion scan recognises), detectCodeConflicts returns hasConflicts
\* = true with a conflict of type redefine-function, whatever else it finds;
\* a definition of run in the generated region only gives no such conflict.
C19_RedefineReported ==
    (callDone /\ callArg.fn = "detectCodeConflicts") =>
        /\ DefinesRun(callArg.arg.manualCode) =>
               callRes.hasConflicts /\ ReportsRedefine(callRes)
        /\ (/\ DefinesRun(callArg.arg.generatedCode)
            /\ ~DefinesRun(callArg.arg.manualCode)) => ~ReportsRedefine(callRes)

\* the brackets of a text that stand outside its quoted string literals, in
\* order, each with its 1-based line: a literal runs from a quote to the
\* next same quote that is not escaped by a backslash.  mode is "" outside
\* a literal, the quote inside one, and "\\" joined to it behind a backslash
RECURSIVE OutsideBrackets(_, _, _, _)
OutsideBrackets(code, k, mode, line) ==
    IF k > Len(code) THEN <<>>
    ELSE LET c == CharAt(code, k)
             nl == IF c = "\n" THEN line + 1 ELSE line
         IN  IF mode = ""
             THEN IF c \in {"\"", "'"}
                  THEN OutsideBrackets(code, k + 1, c, nl)
                  ELSE (IF c \in {"(", ")", "[", "]", "{", "}"}
                        THEN <<[char |-> c, line |-> line]>> ELSE <<>>)
                       \o OutsideBrackets(code, k + 1, "", nl)
             ELSE IF Len(mode) = 2
             THEN OutsideBrackets(code, k + 1, CharAt(mode, 1), nl)
             ELSE IF c = "\\"
             THEN OutsideBrackets(code, k + 1, mode \o "\\", nl)
             ELSE IF c = mode THEN OutsideBrackets(code, k + 1, "", nl)
             ELSE OutsideBrackets(code, k + 1, mode, nl)

IsPair(a, b) == <<a, b>> \in {<<"(", ")">>, <<"[", "]">>, <<"{", "}">>}

\* properly nested and all closed: deleting adjacent pairs leaves nothing
RECURSIVE Cancels(_)
Cancels(bs) ==
    IF bs = <<>> THEN TRUE
    ELSE /\ \E k \in 1..(Len(bs) - 1) : IsPair(bs[k].char, bs[k + 1].char)
         /\ LET k == CHOOSE j \in 1..(Len(bs) - 1) :
                         IsPair(bs[j].char, bs[j + 1].char)
            IN  Cancels(SubSeq(bs, 1, k - 1) \o SubSeq(bs, k + 2, Len(bs)))

\* the errors the brackets bs call for, open being the brackets open so far:
\* one for each closing bracket that does not match the innermost open
\* bracket, one for each bracket still open at the end
RECURSIVE BracketErrors(_, _)
BracketErrors(bs, open) ==
    IF bs = <<>>
    THEN {"Unclosed bracket '" \o open[k].char \o "' on line "
              \o ToString(open[k].line) : k \in DOMAIN open}
    ELSE IF bs[1].char \in {"(", "[", "{"}
    THEN BracketErrors(Tail(bs), <<bs[1]>> \o open)
    ELSE IF open # <<>> /\ IsPair(open[1].char, bs[1].char)
    THEN BracketErrors(Tail(bs), Tail(open))
    ELSE {"Unexpected closing bracket '" \o bs[1].char \o "' on line "
              \o ToString(bs[1].line)} \cup BracketErrors(Tail(bs), open)

\* how many brackets of bs call for an error
RECURSIVE BracketErrorCount(_, _)
BracketErrorCount(bs, open) ==
    IF bs = <<>> THEN Len(open)
    ELSE IF bs[1].char \in {"(", "[", "{"}
    THEN BracketErrorCount(Tail(bs), <<bs[1]>> \o open)
    ELSE IF open # <<>> /\ IsPair(open[1].char, bs[1].char)
    THEN BracketErrorCount(Tail(bs), Tail(open))
    ELSE 1 + BracketErrorCount(Tail(bs), open)

\* C20: validatePythonSyntax returns isValid = true exactly when the text is
\* not blank and its (), [] and {} brackets outside quoted string literals
\* are properly nested and all closed; each opening bracket left unclosed
\* gives one 'Unclosed bracket' error and each closing bracket that does not
\* match the innermost open bracket one 'Unexpected closing bracket' error,
\* each with the 1-based line number of that bracket.
C20_BracketBalance ==
    (callDone /\ callArg.fn = "validatePythonSyntax") =>
        LET code == callArg.arg
            bs == OutsideBrackets(code, 1, "", 1)
        IN  /\ callRes.isValid = (Trim(code) # "" /\ Cancels(bs))
            /\ Trim(code) # "" =>
                /\ {callRes.errors[k] : k \in DOMAIN callRes.errors}
                       = BracketErrors(bs, <<>>)
                /\ Len(callRes.errors) = BracketErrorCount(bs, <<>>)

C20_Witness ==
    /\ callDone /\ callArg.fn = "validatePythonSyntax"
    /\ ~callRes.isValid
    /\ \E j, k \in DOMAIN callRes.errors :
          /\ callRes.errors[j] = "Unexpected closing bracket ']' on line 2"
          /\ callRes.errors[k] = "Unclosed bracket '(' on line 2"

(***************************************************************************)
(* SpecClicks: pointer presses and releases at two points of the surface   *)
(* during a recording session                                              *)
(***************************************************************************)
ClickPts == ClientPts

NextClicks ==
    \/ Tick
    \/ commitAction
    \/ \E f \in inflight, ok \in BOOLEAN : CaptureDone(f, ok)
    \/ ToggleSmartRecord
    \/ \E pt \in ClickPts, b \in Buttons, d \in Details :
           handleMouseDown(pt, b, d)
    \/ \E pt \in ClickPts : handleMouseUpCapture(pt)

SpecClicks == SessionInit /\ [][NextClicks]_vars

\* classified[i] is a plain click (click count 1) made while recording that
\* no double-click or right-click follows within 250 ms
UnfollowedClick(i) ==
    LET c == classified[i] IN
    /\ c.kind = "click" /\ c.detail = 1 /\ c.recording
    /\ \A j \in DOMAIN classified :
          (j > i /\ classified[j].t - c.t <= ClickDelay)
              => classified[j].kind \notin {"double_click", "right_click"}

\* C21: once no click waits in the 250 ms buffer, every plain click that was
\* not followed within 250 ms by a double-click or a right-click has been
\* committed exactly once, as a click; a second plain click inside the
\* window does not discard the first.
C21_PlainClickCommitted ==
    timers = {} =>
        \A i \in DOMAIN classified :
            UnfollowedClick(i) =>
                LET ks == CommitsOf({classified[i].ev}) IN
                /\ Cardinality(ks) = 1
                /\ \A k \in ks : ActionType(committed[k].stepData) = "click"

\* the step that classifies a right-click or a double-click commits it in
\* the same step and leaves no click in the buffer
C22_ImmediateStep ==
    (/\ Len(classified') = Len(classified) + 1
     /\ classified'[Len(classified')].kind \in {"right_click", "double_click"})
        => LET c == classified'[Len(classified')] IN
           /\ Len(committed') = Len(committed) + 1
           /\ committed'[Len(committed')].ev = c.ev
           /\ ActionType(committed'[Len(committed')].stepData) = c.kind
           /\ committed'[Len(committed')].stepData.timestamp = c.t
           /\ timers' = {}
           /\ clickTimeoutRef' = 0

\* a plain click that was in the buffer when a right-click or a double-click
\* was classified has no committed Action
C22_CancelledClick ==
    \A i, j \in DOMAIN classified :
        (/\ i < j
         /\ classified[i].kind = "click"
         /\ classified[j].kind \in {"right_click", "double_click"}
         /\ classified[j].t - classified[i].t < ClickDelay)
            => CommitsOf({classified[i].ev}) = {}

\* C22: a right-click or a double-click is committed at the moment it is
\* classified, without passing through the 250 ms buffer, and a plain click
\* waiting in the buffer at that moment is cancelled and never committed.
C22_ImmediateAndCancels == []C22_CancelledClick /\ [][C22_ImmediateStep]_vars

C22_Witness ==
    /\ timers = {}
    /\ \E i, j \in DOMAIN classified :
          /\ i < j
          /\ classified[i].kind = "click"
          /\ classified[j].kind = "right_click"
          /\ classified[j].t - classified[i].t < ClickDelay
          /\ classified[j].pt # classified[i].pt
          /\ CommitsOf({classified[j].ev}) # {}
          /\ CommitsOf({classified[i].ev}) = {}

InsertionsOf(id) == {i \in DOMAIN insLog : insLog[i].id = id}

\* no Action has more than one insertion, and the Action of a settled
\* storage call has one while a script is open
C23_OncePerAction ==
    /\ \A id \in DOMAIN committed : Cardinality(InsertionsOf(id)) <= 1
    /\ \A k \in DOMAIN settled :
          currentScript # NONE => Cardinality(InsertionsOf(settled[k].id)) = 1

\* the step that commits an Action while recording is on and not paused
\* with a script open inserts its code or starts its template capture
C23_CommitStep ==
    (/\ isRecording /\ ~isPaused /\ currentScript # NONE
     /\ Len(committed') = Len(committed) + 1
     /\ committed'[Len(committed')].recording)
        => LET id == Len(committed') IN
           \/ \E f \in inflight' : f.id = id
           \/ /\ Len(insLog') = Len(insLog) + 1
              /\ insLog'[Len(insLog')].id = id

\* C23: while recording is active and not paused with a script open, every
\* Action the classifier commits results in exactly one code insertion into
\* the script buffer, at once or when its template capture settles; no
\* committed Action is dropped.
C23_EveryCommitInserted == []C23_OncePerAction /\ [][C23_CommitStep]_vars

\* C24: the code of a template capture is inserted into the buffer of the
\* script that was current when its Action was committed (the script the
\* template is stored under), also when another script has been opened
\* before the storage call settled; never into another script's text.
C24_CaptureIntoOwnScript ==
    \A k \in DOMAIN insLog :
        committed[insLog[k].id].stepData.type = "smart_click"
            => insLog[k].script = insLog[k].origin

\* the Step with the type and the fields of a committed Action
StepOf(stepData) ==
    [BlankStep EXCEPT
        !.type = stepData.type, !.x = stepData.x, !.y = stepData.y,
        !.end_x = stepData.end_x, !.end_y = stepData.end_y,
        !.text = stepData.text, !.keys = stepData.keys,
        !.delay_before = stepData.delay_before]

\* C25: the statement live capture inserts for a committed Action is the
\* statement stepToCode emits for the Step with the same type and fields
\* (the Actions inserted without a template capture: click, right_click,
\* type, key_press, key_combo).
C25_LiveEqualsSynthesized ==
    \A k \in DOMAIN insLog :
        LET stepData == committed[insLog[k].id].stepData IN
        stepData.type # "smart_click" =>
            /\ Snippet(stepData) = stepToCode(StepOf(stepData))
            /\ EndsWith(insLog[k].text, stepToCode(StepOf(stepData)))

(***************************************************************************)
(* Claims about CodeEditor.insertCode, continued (SpecInsert)              *)
(***************************************************************************)
\* 1-based number of the last non-blank line of the body of the entry
\* function at line r: the block ends before the first line that is neither
\* blank nor a comment and is indented no deeper than the header
LastBodyLine(lines, r) ==
    Backtrack(lines,
              ScanBlock(lines, r + 1, IndentLength(lines[r]), r, 0)[1], r)

\* the body of the entry function at line r holds the placeholder: a `pass`
\* at the indentation of the first body line
HasPlaceholder(lines, r) ==
    \E j \in (r + 1)..LastBodyLine(lines, r) :
        /\ Trim(lines[j]) = "pass"
        /\ IndentLength(lines[j]) = IndentLength(lines[r + 1])

\* C26: when the body of the entry function is not the placeholder, a live
\* insertion puts the snippet, indented, right after the last non-blank
\* body line, and every line that was there before, a `pass` inside a
\* nested block included, stays unchanged and in place.  (Stated for bodies
\* without a `pass` statement of their own and for buffers with a line
\* after the body, where the insertion point is a position of the text.)
C26_AppendedAfterBody ==
    LET lines == SplitLines(edPrev)
        r == FindRunLine(lines, 1)
        last == LastBodyLine(lines, r)
    IN  (/\ edCount >= 1
         /\ r > 0 /\ last > r /\ last < Len(lines)
         /\ ~HasPlaceholder(lines, r)) =>
            SplitLines(edCode) =
                SubSeq(lines, 1, last)
                    \o IndentForAppend(SplitLines(edText), 1, StandardIndent)
                    \o SubSeq(lines, last + 1, Len(lines))

\* the texts that put one blank line after the non-empty text value
BlankSeparators(value) ==
    IF EndsWith(value, "\n") THEN {"\n", "\n\n"} ELSE {"\n\n"}

\* C27: when the buffer has no entry function, a live insertion appends the
\* snippet at the end of the file, after one blank separator line if and
\* only if the file is non-empty, and leaves the existing text unchanged.
C27_AppendedAtEnd ==
    (edCount >= 1 /\ FindRunLine(SplitLines(edPrev), 1) = 0) =>
        IF edPrev = ""
        THEN edCode = edText \o "\n"
        ELSE \E sep \in BlankSeparators(edPrev) :
                 edCode = edPrev \o sep \o edText \o "\n"

(***************************************************************************)
(* Claims about the generated region, continued (SpecMerge)                *)
(***************************************************************************)
countLines(code) == IF code = "" THEN 0 ELSE Len(SplitLines(code))

separateGeneratedFromManual(fullCode, generatedLineCount) ==
    IF fullCode = "" THEN [generated |-> "", manual |-> ""]
    ELSE IF generatedLineCount <= 0
    THEN [generated |-> "", manual |-> fullCode]
    ELSE LET lines == SplitLines(fullCode)
             n == IF generatedLineCount < Len(lines)
                  THEN generatedLineCount ELSE Len(lines)
         IN  [generated |-> JoinLines(SubSeq(lines, 1, n)),
              manual |-> JoinLines(SubSeq(lines, n + 1, Len(lines)))]

\* C28: after a resynthesis the merged text starts with the freshly
\* generated text, and splitting it at the line count of the freshly
\* generated text gives back exactly that text as the generated part.
C28_GeneratedIsPrefix ==
    mDone =>
        /\ StartsWith(mOut.merged, mNew)
        /\ separateGeneratedFromManual(mOut.merged,
                                       countLines(mNew)).generated = mNew

(***************************************************************************)
(* Claims about the code view with markers (SpecCall)                      *)
(***************************************************************************)
\* C29: an edit that touches only lines of the generated region (a generated
\* line changed, added or removed) leaves the manual text unchanged.
C29_GeneratedEditKeepsManual ==
    (/\ callDone /\ callArg.fn = "handleChange"
     /\ callArg.arg.edit.line <= Len(SplitLines(callArg.arg.generatedCode)))
        => callRes = callArg.arg.manualCode

(***************************************************************************)
(* Claims about pending pointer state (SpecClicks)                         *)
(***************************************************************************)
\* the step in which a pointer-up classifies a click, a double-click or a
\* drag: recording is on and the last pointer-down on the surface is the
\* primary-button press the interaction is attributed to
C30_ReleaseStep ==
    (/\ Len(classified') = Len(classified) + 1
     /\ classified'[Len(classified')].viaRelease)
        => /\ isRecording
           /\ classified'[Len(classified')].recording
           /\ lastDown.count > 0
           /\ lastDown.button = 0
           /\ lastDown.pt = classified'[Len(classified')].press
           /\ lastDown.count = classified'[Len(classified')].detail

\* C30: a pointer-up commits a click or a drag only when it ends an
\* interaction begun by a primary-button pointer-down on the surface in the
\* same recording session with no other release in between; the pending
\* state of a press whose release was not seen is not attributed to a later
\* release such as that of a right-click.
C30_ReleaseEndsItsPress == [][C30_ReleaseStep]_vars

(***************************************************************************)
(* Claims about recorded timing (SpecClicks: one session begun at Epoch)   *)
(***************************************************************************)
\* the time of the k-th committed Action; the start of recording for k = 0
ActionTime(k) == IF k = 0 THEN Epoch ELSE committed[k].stepData.timestamp

\* C31: the delay_before of every committed Action is the time between the
\* previous committed Action and this one, rounded to 0.1 s (from the start
\* of recording for the first commit); an event that was classified but
\* never committed does not shorten it.
C31_DelaySincePreviousCommit ==
    \A k \in DOMAIN committed :
        committed[k].stepData.delay_before
            = RoundDiv(ActionTime(k) - ActionTime(k - 1), 100)

(***************************************************************************)
(* SpecTiming: key and wheel events of a recording session, with pauses of *)
(* the user between them                                                   *)
(***************************************************************************)
IdleMs == 500           \* a pause of the user
MaxSessionMs == 2000    \* pauses are taken in the first two seconds

\* the user does nothing for IdleMs
Idle ==
    /\ timers = {}
    /\ now + IdleMs <= Epoch + MaxSessionMs
    /\ now' = now + IdleMs
    /\ UNCHANGED <<connected, isRecording, isPaused, currentScript,
                   codeVars, lastRecordTime, isSmartRecord, upSmart,
                   lastActionTime, dragData, clickTimeoutRef, timers,
                   inflight, ctlCount, histVars>>
    /\ UNCHANGED notRec

NextTiming ==
    \/ Idle
    \/ \E e \in KeyEvents : handleKeyDown(e)
    \/ \E deltaY \in {-1, 1} : handleWheelCapture(PressPt, deltaY)

SpecTiming == SessionInit /\ [][NextTiming]_vars

\* the wait statement for a gap given in tenths of a second
WaitFor(gap) ==
    IF gap > 1 THEN "vnc.wait(" \o FormatTenths(gap) \o ")\n" ELSE ""

\* C32: the wait statement inserted before an action is the time elapsed
\* since the previous committed action rounded to 0.1 s, and none is
\* inserted when that gap is at most 0.1 s.
C32_WaitIsGap ==
    \A k \in DOMAIN insLog :
        LET id == insLog[k].id
            gap == RoundDiv(ActionTime(id) - ActionTime(id - 1), 100)
        IN  insLog[k].text
                = WaitFor(gap) \o Snippet(committed[id].stepData)

(***************************************************************************)
(* Claims about failed template captures (SpecClicks)                      *)
(***************************************************************************)
\* the coordinate-only statement of the kind and point of stepData
CoordinateFallback(stepData) ==
    "vnc." \o ActionType(stepData) \o "("
        \o Point(stepData.x, stepData.y) \o ")"

\* C33: when the storage call of a template-backed right-click or
\* double-click fails, the coordinate-only statement inserted is of the kind
\* of the recorded action, at the same point.
C33_FallbackKeepsKind ==
    \A k \in DOMAIN settled, i \in DOMAIN insLog :
        (/\ ~settled[k].ok
         /\ insLog[i].id = settled[k].id
         /\ committed[insLog[i].id].stepData.originalType
                \in {"right_click", "double_click"})
            => EndsWith(insLog[i].text,
                        CoordinateFallback(committed[insLog[i].id].stepData))

(***************************************************************************)
(* Claims about generateCode, continued (SpecGen)                          *)
(***************************************************************************)
IsWaitLine(line) == StartsWith(Trim(line), "vnc.wait(")

IsCommentLine(line) == StartsWith(Trim(line), "#")

\* the lines of ls that are action statements, in order (no step of the
\* lists synthesized here is of type wait)
RECURSIVE ActionLines(_)
ActionLines(ls) ==
    IF Len(ls) = 0 THEN <<>>
    ELSE (IF IsWaitLine(ls[1]) \/ IsCommentLine(ls[1]) THEN <<>>
          ELSE <<ls[1]>>) \o ActionLines(Tail(ls))

\* C34: generateCode emits exactly one action statement per step, in
\* ascending order (equal orders in list order), for every step type; a
\* wait line or a comment line comes only with its step's action statement.
C34_OneStatementPerStep ==
    \A i \in DOMAIN genLog :
        (genLog[i].given /\ genLog[i].steps # <<>>) =>
            LET body == RunStatements(genLog[i].out.code)
                acts == ActionLines(body)
                sorted == SortByOrder(genLog[i].steps)
            IN  /\ Len(acts) = Len(sorted)
                /\ \A j \in DOMAIN acts :
                      /\ StartsWith(acts[j], "    vnc.")
                      /\ stepToCode(sorted[j]) # ""
                            => acts[j] = "    " \o stepToCode(sorted[j])
                /\ \A j \in DOMAIN body :
                      (IsWaitLine(body[j]) \/ IsCommentLine(body[j]))
                          => /\ j < Len(body)
                             /\ ~IsWaitLine(body[j + 1])
                             /\ IsCommentLine(body[j])
                                    => ~IsCommentLine(body[j + 1])

(***************************************************************************)
(* SpecKeys: key-down events of a recording session                        *)
(***************************************************************************)
MaxKeyEvents == 2       \* key-down events delivered in one run of SpecKeys

KeyInputs ==
    { [key |-> k, ctrlKey |-> c, altKey |-> a, shiftKey |-> s, repeat |-> r] :
        k \in {"a", "Enter", "ArrowUp", "F5", "Shift", "Meta"},
        c \in BOOLEAN, a \in BOOLEAN, s \in BOOLEAN, r \in BOOLEAN }

NextKeys == (\E e \in KeyInputs : handleKeyDown(e)) /\ evCount' <= MaxKeyEvents

SpecKeys == SessionInit /\ [][NextKeys]_vars

\* the canonical token of a key: the named keys enter, tab, escape,
\* backspace, delete and the arrows have one, other keys stand for themselves
CanonicalToken(key) ==
    CASE key = "Enter" -> "enter" [] key = "Tab" -> "tab"
      [] key = "Escape" -> "escape" [] key = "Backspace" -> "backspace"
      [] key = "Delete" -> "delete" [] key = "ArrowUp" -> "up"
      [] key = "ArrowDown" -> "down" [] key = "ArrowLeft" -> "left"
      [] key = "ArrowRight" -> "right" [] OTHER -> key

HeldModifiers(e) ==
    (IF e.ctrlKey THEN <<"ctrl">> ELSE <<>>)
        \o (IF e.altKey THEN <<"alt">> ELSE <<>>)
        \o (IF e.shiftKey THEN <<"shift">> ELSE <<>>)

\* what the key-down event e commits in this step
KeyClassified(e) ==
    IF e.repeat \/ e.key \in {"Shift", "Control", "Alt", "Meta"}
    THEN committed' = committed
    ELSE /\ Len(committed') = Len(committed) + 1
         /\ SubSeq(committed', 1, Len(committed)) = committed
         /\ LET stepData == committed'[Len(committed')].stepData
                token == CanonicalToken(e.key)
            IN  IF HeldModifiers(e) # <<>>
                THEN /\ stepData.type = "key_combo"
                     /\ stepData.keys = HeldModifiers(e) \o <<token>>
                ELSE IF Len(e.key) = 1
                THEN /\ stepData.type = "type"
                     /\ stepData.text = e.key
                ELSE /\ stepData.type = "key_press"
                     /\ stepData.keys = <<token>>

SelPts == { <<124, 150>>, <<125, 145>>, <<131, 153>>, <<10, 153>> }

\* what the text recognition returns: a text, nothing, or a failure
OcrTexts == {"OK", ""}
OcrFailed == "[OCR Failed]"

\* the Verify Image button (shown while recording)
ToggleVerifyMode ==
    /\ Command
    /\ connected /\ isRecording /\ ~ocrModal.isOpen
    /\ IF isVerifyMode
       THEN isVerifyMode' = FALSE /\ UNCHANGED isVerifyTextMode
       ELSE isVerifyTextMode' = FALSE /\ isVerifyMode' = TRUE
    /\ UNCHANGED <<isSelecting, selectionStart, selectionRect, ocrModal>>
    /\ UNCHANGED <<connected, isRecording, isPaused, currentScript,
                   codeVars, lastRecordTime, upSmart, vncVars, timers,
                   inflight, histVars>>
    /\ UNCHANGED <<idleVars, tabVars>>

\* the Verify Text button
ToggleVerifyTextMode ==
    /\ Command
    /\ connected /\ isRecording /\ ~ocrModal.isOpen
    /\ IF isVerifyTextMode
       THEN isVerifyTextMode' = FALSE /\ UNCHANGED isVerifyMode
       ELSE isVerifyMode' = FALSE /\ isVerifyTextMode' = TRUE
    /\ UNCHANGED <<isSelecting, selectionStart, selectionRect, ocrModal>>
    /\ UNCHANGED <<connected, isRecording, isPaused, currentScript,
                   codeVars, lastRecordTime, upSmart, vncVars, timers,
                   inflight, histVars>>
    /\ UNCHANGED <<idleVars, tabVars>>

\* handleGlobalMouseMove: the window listener of the selection effect
handleGlobalMouseMove(pt) ==
    /\ isSelecting
    /\ IF selectionStart = NOPOINT THEN Ignore ELSE Deliver
    /\ IF selectionStart = NOPOINT
       THEN UNCHANGED selectionRect
       ELSE LET mouseX == Clamp(pt[1] - CanvasRect.left, 0, CanvasRect.width)
                mouseY == Clamp(pt[2] - CanvasRect.top, 0, CanvasRect.height)
                Min(a, b) == IF a < b THEN a ELSE b
            IN  selectionRect' =
                    [x |-> Min(selectionStart.x, mouseX),
                     y |-> Min(selectionStart.y, mouseY),
                     width |-> Abs(mouseX - selectionStart.x),
                     height |-> Abs(mouseY - selectionStart.y)]
    /\ UNCHANGED <<isVerifyMode, isVerifyTextMode, isSelecting,
                   selectionStart, ocrModal>>
    /\ UNCHANGED <<appVars, codeVars, lastRecordTime, upSmart, vncVars,
                   timers, inflight, lastDown, classified, committed, insLog>>
    /\ UNCHANGED <<idleVars, tabVars>>

\* the selection in remote space: scaleX = canvas.width / rect.width
RemoteRegion(rect) ==
    LET width == RoundDiv(rect.width * ScreenSize.width, CanvasRect.width)
        height == RoundDiv(rect.height * ScreenSize.height, CanvasRect.height)
    IN  [x |-> RoundDiv(rect.x * ScreenSize.width, CanvasRect.width),
         y |-> RoundDiv(rect.y * ScreenSize.height, CanvasRect.height),
         width |-> IF width < 1 THEN 1 ELSE width,
         height |-> IF height < 1 THEN 1 ELSE height]

\* selectionRect.width < 5 || selectionRect.height < 5
MinSelection == 5

\* handleGlobalMouseUp: the window listener that ends a selection; the
\* setTimeout(..., 0) that opens the dialog has run before the next input
handleGlobalMouseUp ==
    /\ isSelecting
    /\ Deliver
    /\ ResetSelection
    /\ IF \/ selectionRect = NORECT
          \/ selectionRect.width < MinSelection
          \/ selectionRect.height < MinSelection
       THEN UNCHANGED <<isVerifyMode, isVerifyTextMode, ocrModal, committed,
                        lastRecordTime, codeVars, inflight, insLog>>
       ELSE LET region == RemoteRegion(selectionRect) IN
            IF isVerifyTextMode
            THEN /\ ocrModal' = [isOpen |-> TRUE, detectedText |-> "",
                                 isLoading |-> TRUE, region |-> region]
                 /\ UNCHANGED <<isVerifyMode, isVerifyTextMode, committed,
                                lastRecordTime, codeVars, inflight,
                                insLog>>
            ELSE /\ Commit([BlankStepData EXCEPT
                               !.type = "wait_for_image",
                               !.x = region.x, !.y = region.y,
                               !.width = region.width,
                               !.height = region.height,
                               !.region = region,
                               !.timestamp = now'],
                           evCount + 1, isRecording, isPaused, currentScript)
                 /\ isVerifyMode' = FALSE
                 /\ UNCHANGED <<isVerifyTextMode, ocrModal>>
    /\ UNCHANGED <<appVars, upSmart, vncVars, timers, lastDown, classified>>
    /\ UNCHANGED <<idleVars, tabVars>>

\* vncApi.ocr settles: resolved with result.text, or rejected
OcrSettles(text) ==
    /\ ocrModal.isOpen /\ ocrModal.isLoading
    /\ ocrModal' = [ocrModal EXCEPT !.isLoading = FALSE,
                                    !.detectedText = text]
    /\ UNCHANGED <<isVerifyMode, isVerifyTextMode, isSelecting,
                   selectionStart, selectionRect>>
    /\ UNCHANGED <<now, appVars, codeVars, lastRecordTime, upSmart,
                   vncVars, timers, inflight, evCount, lastDown, classified,
                   committed, insLog>>
    /\ UNCHANGED <<idleVars, tabVars>>

\* the dialog closes: setOcrModal({isOpen: false, ...}) and the resets
CloseOcrModal ==
    /\ ocrModal' = [isOpen |-> FALSE, detectedText |-> "",
                    isLoading |-> FALSE, region |-> NORECT]
    /\ isVerifyTextMode' = FALSE
    /\ ResetSelection
    /\ UNCHANGED isVerifyMode

\* the Cancel and X buttons of the dialog
OcrCancel ==
    /\ ocrModal.isOpen
    /\ Deliver
    /\ CloseOcrModal
    /\ UNCHANGED <<appVars, codeVars, lastRecordTime, upSmart, vncVars,
                   timers, inflight, lastDown, classified, committed, insLog>>
    /\ UNCHANGED <<idleVars, tabVars>>

\* the Confirm button: disabled without a text and after a failure
OcrConfirm ==
    /\ ocrModal.isOpen
    /\ ocrModal.detectedText \notin {"", OcrFailed}
    /\ Deliver
    /\ Commit([BlankStepData EXCEPT
                  !.type = "wait_for_text",
                  !.text = ocrModal.detectedText,
                  !.region = ocrModal.region,
                  !.x = RoundDiv(2 * ocrModal.region.x
                                   + ocrModal.region.width, 2),
                  !.y = RoundDiv(2 * ocrModal.region.y
                                   + ocrModal.region.height, 2),
                  !.timestamp = now'],
              evCount + 1, isRecording, isPaused, currentScript)
    /\ CloseOcrModal
    /\ UNCHANGED <<appVars, upSmart, vncVars, timers, lastDown, classified>>
    /\ UNCHANGED <<idleVars, tabVars>>

NextVerify ==
    \/ Tick
    \/ commitAction
    \/ \E f \in inflight, ok \in BOOLEAN : CaptureDone(f, ok)
    \/ ToggleVerifyMode
    \/ ToggleVerifyTextMode
    \/ /\ ~ocrModal.isOpen
       /\ \/ \E b \in Buttons, d \in Details : handleMouseDown(PressPt, b, d)
          \/ \E pt \in SelPts : handleMouseMoveCapture(pt)
          \/ \E pt \in SelPts : handleMouseUpCapture(pt)
          \/ \E pt \in SelPts : handleGlobalMouseMove(pt)
          \/ handleGlobalMouseUp
    \/ \E text \in OcrTexts \cup {OcrFailed} : OcrSettles(text)
    \/ OcrCancel
    \/ OcrConfirm

SpecVerify == SessionInit /\ [][NextVerify]_vars

(***************************************************************************)
(* C36: every wait_for_image or wait_for_text Action committed from a      *)
(* region selection carries as its anchor point (x, y) the centre of the   *)
(* selected rectangle in remote space (to the rounding of half a unit).    *)
(***************************************************************************)
IsCentreOf(x, y, region) ==
    /\ Abs(2 * x - (2 * region.x + region.width)) <= 1
    /\ Abs(2 * y - (2 * region.y + region.height)) <= 1

C36_AnchorIsCentre ==
    \A k \in DOMAIN committed :
        LET stepData == committed[k].stepData IN
        stepData.type \in {"wait_for_image", "wait_for_text"}
            => IsCentreOf(stepData.x, stepData.y, stepData.region)

(***************************************************************************)
(* SpecCapture: presses and releases in the middle of the surface and next *)
(* to its top-left and bottom-right corners during a recording session     *)
(***************************************************************************)
CapturePts == { PressPt, <<30, 60>>, <<525, 420>> }

NextCapture ==
    \/ Tick
    \/ commitAction
    \/ \E f \in inflight, ok \in BOOLEAN : CaptureDone(f, ok)
    \/ \E pt \in CapturePts, b \in Buttons, d \in Details :
           handleMouseDown(pt, b, d)
    \/ \E pt \in CapturePts : handleMouseUpCapture(pt)

SpecCapture == SessionInit /\ [][NextCapture]_vars

(***************************************************************************)
(* C37: for every template captured around a click point, the hint         *)
(* emitted with the template reference is the remote-space centre of the   *)
(* area that was actually captured (to the rounding of half a unit), also  *)
(* when the capture window is shifted or cut at an edge of the frame.      *)
(***************************************************************************)
\* the whole numbers within half a unit of the middle of [from, from + size]
MidPoints(from, size) ==
    {(2 * from + size) \div 2, (2 * from + size + 1) \div 2}

C37_HintIsCaptureCentre ==
    \A i \in DOMAIN insLog :
        LET k == insLog[i].id
            stepData == committed[k].stepData
        IN  /\ stepData.type = "smart_click"
            /\ \E j \in DOMAIN settled : settled[j].id = k /\ settled[j].ok
            => \E x \in MidPoints(stepData.smartTemplate.x,
                                   stepData.smartTemplate.width),
                  y \in MidPoints(stepData.smartTemplate.y,
                                   stepData.smartTemplate.height) :
                   /\ IsCentreOf(x, y, stepData.smartTemplate)
                   /\ EndsWith(insLog[i].text,
                               "hint=(" \o Point(x, y) \o "))")

(***************************************************************************)
(* C38: in assertion-capture mode a pointer-up that ends a selection       *)
(* narrower or lower than 5 units commits no Action and resets the         *)
(* selection state, a selection of at least 5 by 5 is handed to capture    *)
(* (the image Action, or the text dialog, with the region), and no click   *)
(* or drag Action is committed, at once or buffered, for a pointer         *)
(* interaction made in this mode.                                          *)
(***************************************************************************)
InVerifyMode == isRecording /\ (isVerifyMode \/ isVerifyTextMode)

SelectionReset ==
    ~isSelecting /\ selectionStart = NOPOINT /\ selectionRect = NORECT

ClickDragTypes ==
    {"click", "right_click", "double_click", "smart_click", "drag"}

\* the Actions the step commits
NewActions ==
    {committed'[k].stepData : k \in (Len(committed) + 1)..Len(committed')}

\* a step of handleGlobalMouseUp on a selection below the minimum size
C38_SmallDiscarded ==
    /\ isSelecting /\ ~isSelecting'
    /\ selectionRect.width < 5 \/ selectionRect.height < 5
    => NewActions = {} /\ SelectionReset' /\ ocrModal' = ocrModal

\* a step of handleGlobalMouseUp on a selection of at least 5 by 5
C38_LargeCaptured ==
    /\ isSelecting /\ ~isSelecting'
    /\ selectionRect.width >= 5 /\ selectionRect.height >= 5
    => IF isVerifyTextMode
       THEN /\ ocrModal'.isOpen
            /\ ocrModal'.region = RemoteRegion(selectionRect)
       ELSE \E stepData \in NewActions :
                /\ stepData.type = "wait_for_image"
                /\ stepData.region = RemoteRegion(selectionRect)

\* an input event delivered during a selection
C38_NoClickOrDrag ==
    InVerifyMode /\ isSelecting /\ evCount' # evCount
    => /\ \A stepData \in NewActions : stepData.type \notin ClickDragTypes
       /\ timers' \subseteq timers

C38_SelectionStep ==
    C38_SmallDiscarded /\ C38_LargeCaptured /\ C38_NoClickOrDrag

C38_AssertionMode == [][C38_SelectionStep]_vars

(***************************************************************************)
(* SpecTabs: the script tabs of the App: scripts are opened, edited in the *)
(* editor, saved and closed, with the unsaved-changes dialog. A call of    *)
(* scriptsApi is one step: answered (ok) or failed. While the dialog is    *)
(* open the user acts on the dialog only.                                  *)
(***************************************************************************)
\* the texts the user leaves in the editor
EditTexts == {StoredCode, "def run(vnc):\n    vnc.click(1, 2)\n"}

\* onCodeChange(newCode) of the CodeEditor: the user edits the shown script
onCodeChange(newCode) ==
    /\ currentScript # NONE /\ ~closeConfirm.isOpen
    /\ newCode # codeByScript[currentScript]
    /\ codeByScript' = [codeByScript EXCEPT ![currentScript] = newCode]
    /\ dirtyScripts' = dirtyScripts \cup {currentScript}
    /\ UNCHANGED <<now, appVars, lastRecordTime, upSmart, vncVars, timers,
                   inflight, evCount, lastDown, classified, committed,
                   insLog>>
    /\ UNCHANGED <<idleVars, selVars, tabVars>>

\* the storage after scriptsApi.update(currentScript.metadata.name, {code})
Saved(ok) ==
    IF ok /\ currentScript # NONE
    THEN [storedCode EXCEPT ![currentScript] = codeByScript[currentScript]]
    ELSE storedCode

\* dirtyScripts after saveScript(): the filter runs when the call succeeded
SavedDirty(ok) ==
    IF ok /\ currentScript # NONE
    THEN dirtyScripts \ {currentScript} ELSE dirtyScripts

\* saveScript from the toolbar or the keyboard
saveScript(ok) ==
    /\ currentScript # NONE /\ ~closeConfirm.isOpen
    /\ storedCode' = Saved(ok)
    /\ dirtyScripts' = SavedDirty(ok)
    /\ UNCHANGED <<now, appVars, codeByScript, lastRecordTime, upSmart,
                   vncVars, timers, inflight, evCount, lastDown, classified,
                   committed, insLog>>
    /\ UNCHANGED <<openScripts, closeConfirm>>
    /\ UNCHANGED <<idleVars, selVars>>

\* the tab of scriptName goes: its cached code is deleted, and if it was the
\* shown script the first remaining tab is loaded; dirty is dirtyScripts as
\* the caller leaves it
CloseTab(scriptName, dirty) ==
    LET cache == [codeByScript EXCEPT ![scriptName] = UNSET]
        remaining == SelectSeq(openScripts, LAMBDA s : s # scriptName)
    IN  /\ openScripts' = remaining
        /\ IF currentScript = scriptName /\ Len(remaining) > 0
           THEN /\ currentScript' = remaining[1]
                /\ codeByScript' = Loaded(cache, remaining[1])
                /\ dirtyScripts' = LoadedDirty(dirty, cache, remaining[1])
           ELSE /\ currentScript' = IF currentScript = scriptName
                                    THEN NONE ELSE currentScript
                /\ codeByScript' = cache
                /\ dirtyScripts' = dirty
        /\ upSmart' = IF currentScript = scriptName
                      THEN isSmartRecord ELSE upSmart

\* closeScriptTab(scriptName): the x of a tab
closeScriptTab(scriptName) ==
    /\ \E i \in DOMAIN openScripts : openScripts[i] = scriptName
    /\ ~closeConfirm.isOpen
    /\ IF scriptName \in dirtyScripts
       THEN /\ closeConfirm' = [isOpen |-> TRUE, scriptName |-> scriptName]
            /\ UNCHANGED <<currentScript, codeVars, openScripts, upSmart>>
       ELSE /\ CloseTab(scriptName, dirtyScripts)
            /\ UNCHANGED closeConfirm
    /\ UNCHANGED <<now, connected, isRecording, isPaused, ctlCount,
                   inflightAtStop, settled, lastRecordTime, vncVars, timers,
                   inflight, evCount, lastDown, classified, committed,
                   insLog, storedCode>>
    /\ UNCHANGED <<idleVars, selVars>>

\* handleCloseConfirm(action): the answer to the unsaved-changes dialog
handleCloseConfirm(action, ok) ==
    /\ closeConfirm.isOpen
    /\ closeConfirm' = NOCONFIRM
    /\ CASE action = "save" ->
               /\ storedCode' = Saved(ok)
               /\ CloseTab(closeConfirm.scriptName,
                           SavedDirty(ok) \ {closeConfirm.scriptName})
         [] action = "discard" ->
               /\ UNCHANGED storedCode
               /\ CloseTab(closeConfirm.scriptName,
                           dirtyScripts \ {closeConfirm.scriptName})
         [] OTHER ->
               UNCHANGED <<currentScript, codeVars, openScripts, upSmart,
                           storedCode>>
    /\ UNCHANGED <<now, connected, isRecording, isPaused, ctlCount,
                   inflightAtStop, settled, lastRecordTime, vncVars, timers,
                   inflight, evCount, lastDown, classified, committed,
                   insLog>>
    /\ UNCHANGED <<idleVars, selVars>>

NextTabs ==
    \/ \E name \in Scripts : loadScript(name)
    \/ \E newCode \in EditTexts : onCodeChange(newCode)
    \/ \E ok \in BOOLEAN : saveScript(ok)
    \/ \E name \in Scripts : closeScriptTab(name)
    \/ \E action \in {"save", "discard", "cancel"}, ok \in BOOLEAN :
           handleCloseConfirm(action, ok)

SpecTabs == Init /\ [][NextTabs]_vars

(***************************************************************************)
(* C39: choosing Save in the unsaved-changes dialog of a dirty script tab  *)
(* persists the unsaved code of the script being closed, under that        *)
(* script's name, before its cached code is discarded, also when the       *)
(* closed tab is not the shown script; no other script's stored code is    *)
(* overwritten. (Stated for a storage call that succeeds.)                 *)
(***************************************************************************)
SavesClosedScript ==
    LET scriptName == closeConfirm.scriptName IN
    /\ storedCode'[scriptName] = codeByScript[scriptName]
    /\ \A other \in Scripts \ {scriptName} :
           storedCode'[other] = storedCode[other]

C39_SaveOnClose ==
    [][handleCloseConfirm("save", TRUE) => SavesClosedScript]_vars

(***************************************************************************)
(* SpecConnect: the App from its construction: scripts are opened, the     *)
(* remote session is connected and disconnected, recording is started and  *)
(* stopped, and keys are pressed in the viewer                             *)
(***************************************************************************)
NextConnect ==
    \/ handleConnect
    \/ handleDisconnect
    \/ toggleRecording
    \/ \E name \in Scripts : loadScript(name)
    \/ \E e \in KeyEvents : handleKeyDown(e)

SpecConnect == Init /\ [][NextConnect]_vars

(***************************************************************************)
(* C40: in every reachable state of the application recording is active    *)
(* only while a remote session is connected: isRecording implies           *)
(* connected.                                                              *)
(***************************************************************************)
C40_RecordingOnlyConnected == isRecording => connected
====
